---------------------------- MODULE Spec2Model ----------------------------
(***************************************************************************)
(* Athena chess engine: the search worker (src/search.c) run against the   *)
(* thread that called it.                                                  *)
(*                                                                         *)
(* The worker is run_search with everything it calls: search (the root     *)
(* search of one iteration), negamax, qsearch, the transposition-table     *)
(* probe and store, the killer table.  The recursion of negamax/qsearch is *)
(* an explicit stack of frames.  The calling thread owns the running flag  *)
(* together with the worker and clears it under running_mtx.               *)
(*                                                                         *)
(* Chess itself (move generation, legality, evaluation) is a fixed finite  *)
(* game graph, Game: every position lists its pseudo-legal moves in        *)
(* generation order, and says for each one whether it is legal and where   *)
(* it leads.                                                               *)
(***************************************************************************)
EXTENDS Integers, Sequences, FiniteSets, TLC

(***************************************************************************)
(* Program constants.                                                      *)
(***************************************************************************)
\* static const int INF = SHRT_MAX
INF == 32767
\* #define MAX_KILLER_MOVES 2
MAX_KILLER_MOVES == 2
\* the clock is read when data->nodes % 8192 == 0
CLOCK_POLL_NODES == 8192
\* futility margin per remaining depth
FUTILITY_MARGIN == 175
\* move-ordering offsets of get_next_move
capture_offset == 300
killer_offset == 600
\* u8 depth of struct node_data
U8_RANGE == 256

(***************************************************************************)
(* Bounds of the model.  MAX_DEPTH is 128 and NULL_MOVE_REDUCTION is 4 in  *)
(* the source; they are scaled down so that the deepest iteration and the  *)
(* null-move search are reached on the game graph below.  LLONG_MAX stands *)
(* for the largest long long: no node count of the model comes near it.    *)
(***************************************************************************)
MAX_DEPTH == 3
NULL_MOVE_REDUCTION == 1
LLONG_MAX == 1000000
TT_CAPACITY == 5
\* the finite node budgets (arg->nodes) tried besides 0 and LLONG_MAX
SmallBudget == 2
LargeBudget == 5

MAX_PLY == 2 * MAX_DEPTH

(***************************************************************************)
(* The game graph.  A position is a number 1..NumPositions; a move is a    *)
(* number 1..12, and 0 is the null Move.  Each entry of moves is a         *)
(* pseudo-legal move in generation order: mv the Move value, to the        *)
(* position do_move leads to (0: the move leaves the own king in check, it *)
(* is not legal), ord the value evaluate_move gives it.  eval is the       *)
(* static evaluation for the side to move, check whether the side to move  *)
(* is in check, zug whether it has only king and pawns, null the position  *)
(* after do_null_move.                                                     *)
(***************************************************************************)
Mv(m, t, o) == [mv |-> m, to |-> t, ord |-> o]

Pos(ms, e, c, z, n) == [moves |-> ms, eval |-> e, check |-> c, zug |-> z, null |-> n]

\* the positions a search may be started from
RootPos == [normal |-> 1, stalemate |-> 2, checkmate |-> 3, nomoves |-> 4,
            exchange |-> 17]

Game ==
  << \* 1 ROOT: first and last pseudo-legal move are not legal
     Pos(<<Mv(1, 0, 0), Mv(2, 5, 0), Mv(3, 6, 0), Mv(12, 0, 0)>>, 0, FALSE, TRUE, 0),
     \* 2 STALEMATE: no legal move, not in check
     Pos(<<Mv(1, 0, 0), Mv(12, 0, 0)>>, 0, FALSE, TRUE, 0),
     \* 3 CHECKMATE: no legal move, in check
     Pos(<<Mv(1, 0, 0)>>, 0, TRUE, TRUE, 0),
     \* 4 NOMOVES: no pseudo-legal move at all
     Pos(<< >>, 0, FALSE, TRUE, 0),
     \* 5 A (after move 2): one legal reply
     Pos(<<Mv(1, 0, 5), Mv(6, 7, 0)>>, -50, FALSE, TRUE, 0),
     \* 6 B (after move 3): a quiet reply and a capture; may pass
     Pos(<<Mv(6, 9, 0), Mv(7, 10, 10)>>, -30, FALSE, FALSE, 11),
     \* 7 A1: quiet move 8 mates
     Pos(<<Mv(8, 8, 0)>>, -100, FALSE, TRUE, 0),
     \* 8 M: checkmated
     Pos(<<Mv(1, 0, 0)>>, -900, TRUE, TRUE, 0),
     \* 9 B1
     Pos(<<Mv(2, 12, 0)>>, 40, FALSE, TRUE, 0),
     \* 10 B2 (after the capture 7): a quiet move and the recapture
     Pos(<<Mv(2, 12, 0), Mv(3, 12, 20)>>, 600, FALSE, TRUE, 0),
     \* 11 NB (B after a null move)
     Pos(<<Mv(2, 12, 0)>>, 30, FALSE, TRUE, 0),
     \* 12..16 a quiet line that ends in a stalemate
     Pos(<<Mv(6, 13, 0)>>, -20, FALSE, TRUE, 0),
     Pos(<<Mv(2, 14, 0)>>, 20, FALSE, TRUE, 0),
     Pos(<<Mv(6, 15, 0)>>, -20, FALSE, TRUE, 0),
     Pos(<<Mv(2, 16, 0)>>, 20, FALSE, TRUE, 0),
     Pos(<< >>, 0, FALSE, TRUE, 0),
     \* 17 EXCHANGE: a move into the stalemate 16, then moves into C, D and F
     Pos(<<Mv(2, 16, 10), Mv(6, 18, 0), Mv(8, 20, 0), Mv(1, 22, 0)>>,
         0, FALSE, TRUE, 0),
     \* 18 C: a capture
     Pos(<<Mv(7, 19, 0)>>, -10, FALSE, TRUE, 0),
     \* 19 C1 (after the capture 7): a quiet move
     Pos(<<Mv(2, 16, 0)>>, -40, FALSE, TRUE, 0),
     \* 20 D: a pawn promotes without capturing
     Pos(<<Mv(9, 21, 0)>>, -60, FALSE, TRUE, 0),
     \* 21 E (after the promotion 9, or the quiet move 6 of F)
     Pos(<<Mv(2, 16, 0)>>, -50, FALSE, TRUE, 0),
     \* 22 F: a quiet move into E
     Pos(<<Mv(6, 21, 0)>>, -60, FALSE, TRUE, 0) >>

NumPositions == Len(Game)

Moves == 0..12

\* the move type bits of a Move say whether it captures, and whether it
\* promotes
CaptureMoves == {3, 7}

PromotionMoves == {9}

Roots == {RootPos.normal, RootPos.stalemate, RootPos.checkmate, RootPos.nomoves,
          RootPos.exchange}

(***************************************************************************)
(* Position and move primitives, read off the game graph.                  *)
(***************************************************************************)
Entry(pos, m) == CHOOSE e \in {Game[pos].moves[k] : k \in 1..Len(Game[pos].moves)} : e.mv = m

get_pseudo_legal_moves(pos) == [k \in 1..Len(Game[pos].moves) |-> Game[pos].moves[k].mv]

move_is_legal(pos, m) == Entry(pos, m).to # 0

do_move(pos, m) == Entry(pos, m).to

do_null_move(pos) == Game[pos].null

move_is_capture(m) == m \in CaptureMoves

move_is_promotion(m) == m \in PromotionMoves

\* quiet: neither a capture nor a promotion
move_is_quiet(m) == ~move_is_capture(m) /\ ~move_is_promotion(m)

evaluate_move(m, pos) == Entry(pos, m).ord

evaluate(pos) == Game[pos].eval

is_in_check(pos) == Game[pos].check

is_zugzwang_likely(pos) == Game[pos].zug

\* the Zobrist hash of a position: distinct positions, distinct values.  The
\* keys are random numbers nothing else is known of, so the keys of some
\* position may cancel: position 0, which is not in the game graph, stands
\* for it.
hash_pos(pos) == 7 * pos

Abs(x) == IF x < 0 THEN -x ELSE x


Max(S) == CHOOSE x \in S : \A y \in S : y <= x

Min(S) == CHOOSE x \in S : \A y \in S : x <= y

Swap(s, i, j) == [s EXCEPT ![i] = s[j], ![j] = s[i]]

(***************************************************************************)
(* Transposition table (src/tt.c): TT_CAPACITY slots, replace always.      *)
(***************************************************************************)
\* calloc'ed slot
ZeroEntry == [hash |-> 0, score |-> 0, depth |-> 0, type |-> "EXACT", best_move |-> 0]

get_tt_entry(table, pos) ==
  LET e == table[hash_pos(pos) % TT_CAPACITY]
  IN  [hit |-> e.hash = hash_pos(pos), data |-> e]

\* depth is narrowed to the u8 field
init_tt_entry(score, d, type, best, pos) ==
  [hash |-> hash_pos(pos), score |-> score, depth |-> d % U8_RANGE, type |-> type,
   best_move |-> best]

store_tt_entry(table, e) == [table EXCEPT ![e.hash % TT_CAPACITY] = e]

score_to_ttscore(score, ply) ==
  IF score >= INF - MAX_PLY THEN score + ply
  ELSE IF score <= -INF + MAX_PLY THEN score - ply
  ELSE score

ttscore_to_score(score, ply) ==
  IF score >= INF - MAX_PLY THEN score - ply
  ELSE IF score <= INF + MAX_PLY THEN score + ply
  ELSE score

\* the probe at the top of negamax and qsearch: [cut, score]
tt_probe(table, pos, d, alpha, beta, ply) ==
  LET h == get_tt_entry(table, pos)
      score == ttscore_to_score(h.data.score, ply)
  IN  [cut |-> /\ h.hit
               /\ h.data.depth >= d
               /\ \/ h.data.type = "EXACT"
                  \/ h.data.type = "CUT" /\ score >= beta
                  \/ h.data.type = "ALPHA_UNCHANGED" /\ score <= alpha,
       score |-> score]

(***************************************************************************)
(* Killer moves and move ordering.                                         *)
(***************************************************************************)
NoKillers == [k \in 1..MAX_KILLER_MOVES |-> 0]

store_killer_overwrite(killers, move) ==
  IF \E k \in 1..MAX_KILLER_MOVES : killers[k] = move
  THEN killers
  ELSE [killers EXCEPT ![1] = move]

store_killer(killers, move) ==
  IF \E k \in 1..MAX_KILLER_MOVES : killers[k] = move
  THEN killers
  ELSE [k \in 1..MAX_KILLER_MOVES |-> IF k = 1 THEN move ELSE killers[k - 1]]

is_killer(move, killers) ==
  \E k \in 1..MAX_KILLER_MOVES : killers[k] # 0 /\ move = killers[k]

\* index (from 1) in rest of the move to try next
get_next_move(rest, killers, pos, table) ==
  LET h == get_tt_entry(table, pos)
      pv == {k \in 1..Len(rest) :
               h.hit /\ h.data.type = "EXACT" /\ rest[k] = h.data.best_move}
      sc(k) == IF is_killer(rest[k], killers)
               THEN killer_offset + evaluate_move(rest[k], pos)
               ELSE IF move_is_capture(rest[k])
               THEN capture_offset + evaluate_move(rest[k], pos)
               ELSE evaluate_move(rest[k], pos)
      top == Max({sc(k) : k \in 1..Len(rest)})
  IN  IF pv # {} THEN Min(pv)
      ELSE Min({k \in 1..Len(rest) : sc(k) = top})

\* [idx, ended]: the capture to try next; ended when no capture is left
get_next_qmove(rest, pos, table) ==
  LET h == get_tt_entry(table, pos)
      caps == {k \in 1..Len(rest) : move_is_capture(rest[k])}
      pv == {k \in caps : h.hit /\ h.data.type = "EXACT" /\ rest[k] = h.data.best_move}
      top == Max({evaluate_move(rest[k], pos) : k \in caps})
  IN  IF caps = {} THEN [idx |-> 1, ended |-> TRUE]
      ELSE IF pv # {} THEN [idx |-> Min(pv), ended |-> FALSE]
      ELSE [idx |-> Min({k \in caps : evaluate_move(rest[k], pos) = top}),
            ended |-> FALSE]

has_legal_moves(rest, pos) == \E k \in 1..Len(rest) : move_is_legal(pos, rest[k])

(***************************************************************************)
(* State.                                                                  *)
(*   arg          struct search_argument handed to run_search              *)
(*   running      *arg->running, shared with the calling thread            *)
(*   running_mtx  who holds *arg->running_mtx: "free", "worker", "caller"  *)
(*   pc           where the worker is in run_search / search               *)
(*   best_move, nodes, depth, max_depth   locals of run_search             *)
(*   params       struct parameters (depth is the variable depth)          *)
(*   data         struct search_data of the running search()               *)
(*   root         locals of search(): alpha, i, result.best, found_mate    *)
(*   stack        the negamax/qsearch invocations in progress              *)
(*   tt           the transposition table                                  *)
(*   result       what search() returned                                   *)
(*   out          the calls of info_sender and best_move_sender, in order  *)
(*   expired      a clock reading was at or past params->stop_time         *)
(* History variables, read by the properties only:                         *)
(*   flag_access  whether the worker's last step touched running, and      *)
(*                whether it held the mutex then                           *)
(*   stop_requested  the calling thread has cleared running                *)
(*   iter_cut     a poll of the current iteration found running false      *)
(*   hist         one record per finished iteration                        *)
(*   counted      nodes counted so far by this run_search call             *)
(***************************************************************************)
VARIABLES arg, running, running_mtx, pc, best_move, nodes, depth, max_depth,
          params, data, root, stack, tt, result, out, expired,
          flag_access, stop_requested, iter_cut, hist, counted

(***************************************************************************)
(* State of the components checked on their own, outside a search.         *)
(*   tt_log       the transposition table seen from outside: per slot the  *)
(*                entry stored last since tt_init / clear_tt (a sequence   *)
(*                of none or one), and the answer of the last probe        *)
(*   call         a function applied by itself: its name, its arguments    *)
(*                and, step by step, what it returned                      *)
(*   position     struct position: board, color_bb, type_bb, the stack of  *)
(*                irreversible states with its capacity and index          *)
(*   pos_log      what was last done to position: the operation, the piece *)
(*                that stood on the square, and for the stack the frames   *)
(*                as they were when the frame above them was pushed        *)
(*   uci          the front-end (src/src/uci.c): search_thread_created,    *)
(*                stop_search, the handle search_thread, the place of the  *)
(*                front-end thread in its command loop, the command it     *)
(*                handled last, and per thread created so far whether it   *)
(*                is running, terminated or joined                         *)
(***************************************************************************)
VARIABLES tt_log, call, position, pos_log, uci

others == <<tt_log, call, position, pos_log, uci>>

vars == <<arg, running, running_mtx, pc, best_move, nodes, depth, max_depth,
          params, data, root, stack, tt, result, out, expired,
          flag_access, stop_requested, iter_cut, hist, counted, others>>

Top == stack[Len(stack)]

SetTop(f) == [stack EXCEPT ![Len(stack)] = f]

Frame(fn, pos, d, alpha, beta, via, move) ==
  [fn |-> fn, pc |-> "enter", pos |-> pos, depth |-> d, alpha |-> alpha,
   beta |-> beta, moves |-> << >>, i |-> 1, best_score |-> -INF, best_move |-> 0,
   has_legal |-> FALSE, type |-> "ALPHA_UNCHANGED", in_check |-> FALSE,
   eval |-> 0, ret |-> 0, via |-> via, move |-> move, early |-> FALSE]

NoData == [ply |-> 0, nodes |-> 0, killers |-> [d \in 0..MAX_DEPTH |-> NoKillers]]

NoRoot == [alpha |-> -INF, i |-> 1, best |-> 0, found_mate |-> FALSE, moves |-> << >>]

NoResult == [best |-> 0, found_mate |-> FALSE, nodes |-> 0]

Info(d, cp, mate, flags, n) ==
  [kind |-> "info", depth |-> d, cp |-> cp, mate |-> mate, flags |-> flags,
   nodes |-> n, move |-> 0]

BestMove(m) ==
  [kind |-> "bestmove", depth |-> 0, cp |-> 0, mate |-> 0, flags |-> {},
   nodes |-> 0, move |-> m]

(***************************************************************************)
(* The tests on the running flag and the node budget that negamax, qsearch *)
(* and the root loop make inside their critical section.                   *)
(***************************************************************************)
\* a budget test that lets one node too many through
BudgetExhaustedLate(n, limit) == n > limit

\* data->nodes >= params->nodes
BudgetExhausted(n, limit) == n >= limit

\* a poll that never sees the flag cleared
StopObservedNever(run) == FALSE

\* if (!*params->running) return / break
StopObserved(run) == ~run

(***************************************************************************)
(* repeated(): walk back along the moves made on the current line, two     *)
(* plies at a time, while the second move of each pair is quiet, and       *)
(* compare positions.  ps[k + 1] is the position at ply k, ms[k] the move  *)
(* made at ply k (move_made[0] and the empty game history give 0).         *)
(* pos_cnt only filters before the walk (a count <= 1 answers false        *)
(* without walking); it is not part of the state.                          *)
(***************************************************************************)
get_ply_move(ply, ms) == IF ply >= 1 /\ ply <= Len(ms) THEN ms[ply] ELSE 0

RECURSIVE walk_back(_, _, _, _)
walk_back(cur, ps, ms, ply) ==
  IF get_ply_move(ply, ms) = 0 THEN FALSE
  ELSE IF get_ply_move(ply - 1, ms) = 0 THEN FALSE
  ELSE IF ~move_is_quiet(get_ply_move(ply - 1, ms)) THEN FALSE
  ELSE IF ps[ply - 1] = cur THEN TRUE
  ELSE walk_back(cur, ps, ms, ply - 2)

repeated(cur, stk, rootpos) ==
  LET made == SelectSeq(stk, LAMBDA f : f.via = "move")
      ms == [k \in 1..Len(made) |-> made[k].move]
      ps == <<rootpos>> \o [k \in 1..Len(made) |-> made[k].pos]
  IN  walk_back(cur, ps, ms, Len(ms))

(***************************************************************************)
(* run_search, lines 994-1036: the root's moves, the first value of        *)
(* best_move, the early returns, init_params.                              *)
(***************************************************************************)
LegalIndices(pos) ==
  {k \in 1..Len(Game[pos].moves) : move_is_legal(pos, Game[pos].moves[k].mv)}

\* the loop of lines 1007-1012 without its legality test
InitialBestMoveUnfiltered(pos) == Game[pos].moves[Len(Game[pos].moves)].mv

\* the loop of lines 1007-1012 leaving at the first legal move
InitialBestMoveFirst(pos) == Game[pos].moves[Min(LegalIndices(pos))].mv

\* the loop of lines 1007-1012 has no break: the last legal move stays
InitialBestMove(pos) == Game[pos].moves[Max(LegalIndices(pos))].mv

\* init_params: the node budget
ParamsNodes(a) == IF a.infinite \/ a.mate # 0 THEN LLONG_MAX ELSE a.nodes

\* init_params: movetime, or else the clock of the side to move, sets a stop time
LimitedTime(a) == a.movetime # 0 \/ a.time # 0

\* run_search lines 1030-1036
MaxDepthOf(a) ==
  IF a.infinite \/ a.mate # 0 THEN MAX_DEPTH
  ELSE IF a.depth > MAX_DEPTH THEN MAX_DEPTH ELSE a.depth

RECURSIVE movegen_perft(_, _)
movegen_perft(pos, d) ==
  IF d = 0 THEN 1
  ELSE LET L == LegalIndices(pos)
           RECURSIVE Sum(_)
           Sum(S) == IF S = {} THEN 0
                     ELSE LET k == Min(S)
                          IN  movegen_perft(Game[pos].moves[k].to, d - 1) + Sum(S \ {k})
       IN  Sum(L)

(***************************************************************************)
(* The search arguments tried.  search.h: running is true when run_search  *)
(* is called; the transposition table is as tt_init leaves it.             *)
(***************************************************************************)
DepthArgs == 0..(MAX_DEPTH + 1)

NodeArgs == {0, SmallBudget, LargeBudget, LLONG_MAX}

Args ==
  [pos : Roots, infinite : BOOLEAN, depth : DepthArgs, mate : {0, 2},
   perft : {0, 1}, nodes : NodeArgs, time : {0, 1}, movetime : {0, 1}]

NoLog == [stored |-> [k \in 0..(TT_CAPACITY - 1) |-> << >>], probe |-> << >>]

TTIdle == tt_log = NoLog

(***************************************************************************)
(* struct position (src/pos.c).  The board has NumSquares squares and      *)
(* NumPieceTypes piece types (64 and 6 in the source); a bitboard is the   *)
(* number whose bit sq is set when the square is in it.  The stack of      *)
(* irreversible states starts with IRR_STATE_STEP frames and grows by as   *)
(* many (256 in the source).                                               *)
(***************************************************************************)
NumSquares == 3
NumPieceTypes == 2
IRR_STATE_STEP == 2
\* the searches and games of the model push at most this many frames
MaxIrrPushes == 3
\* the board of the move generator: NumFiles files (8 in the source) of
\* NumRanks ranks
NumFiles == 2
NumRanks == 8
\* a session of the front-end creates at most this many search threads
MaxThreads == 3
\* the numbers of a FEN string have at most this many digits
MaxDigits == 5
SHRT_MAX == 32767
INT_MAX == 2147483647
\* the table of position counters (8191 counters in the source), the moves
\* played before a search and the moves of a search line
POS_CNT_TABLE_LEN == 3
MaxHistory == 2
MaxLine == 3
\* the clock is read every PollInterval nodes (8192 in the source); a search
\* of the polling model counts at most MaxPollNodes nodes
PollInterval == 4
MaxPollNodes == 10
\* a FEN of the phase model has at most MaxSame pieces of one kind and colour
MaxSame == 3
\* a go command has at most MaxGoItems arguments; GoValue is the number given
\* with a limit
MaxGoItems == 2
GoValue == 7
\* the length of search_arg.moves
MovesCapacity == 2

Squares == 0..(NumSquares - 1)

\* create_piece: pt << 1 | c
Pieces == 0..(2 * NumPieceTypes - 1)

PIECE_NONE == 2 * NumPieceTypes

get_piece_color(piece) == piece % 2

get_piece_type(piece) == piece \div 2

\* bb & (1 << sq)
HasBit(bb, sq) == (bb \div (2 ^ sq)) % 2 = 1

\* bb | (1 << sq)
SetBit(bb, sq) == IF HasBit(bb, sq) THEN bb ELSE bb + 2 ^ sq

\* bb & ~(1 << sq)
ClearBit(bb, sq) == IF HasBit(bb, sq) THEN bb - 2 ^ sq ELSE bb

IrrFrame(rights, clock, captured) ==
  [castling_rights_and_enpassant |-> rights, halfmove_clock |-> clock,
   captured_piece |-> captured]

\* malloc'ed and not yet written
JunkFrame == IrrFrame(255, 255, 255)

\* create_pos before parse_fen: empty board, one irreversible state
EmptyPosition ==
  [board |-> [sq \in Squares |-> PIECE_NONE],
   color_bb |-> [c \in 0..1 |-> 0],
   type_bb |-> [t \in 0..(NumPieceTypes - 1) |-> 0],
   irr_states |-> [k \in 0..(IRR_STATE_STEP - 1) |->
                    IF k = 0 THEN IrrFrame(0, 0, PIECE_NONE) ELSE JunkFrame],
   irr_state_cap |-> IRR_STATE_STEP,
   irr_state_idx |-> 0,
   fullmove_counter |-> 0]

NoPosLog ==
  [op |-> "create", old |-> PIECE_NONE, piece |-> PIECE_NONE, shadow |-> << >>,
   expect |-> << >>]

PosIdle == position = EmptyPosition /\ pos_log = NoPosLog

\* the front-end as uci.c initialises it (lines 46-48), no thread created yet
UciStart ==
  [search_thread_created |-> FALSE, stop_search |-> FALSE, search_thread |-> 0,
   pc |-> "read", last |-> "none", threads |-> [id \in 1..MaxThreads |-> "none"]]

UciIdle == uci = UciStart

ComponentsIdle ==
  /\ TTIdle
  /\ PosIdle
  /\ UciIdle

NoCall == [fn |-> "none"]

OthersIdle == ComponentsIdle /\ call = NoCall

Init ==
  /\ OthersIdle
  /\ arg \in Args
  /\ running = TRUE
  /\ running_mtx = "free"
  /\ pc = "start"
  /\ best_move = 0
  /\ nodes = 0
  /\ depth = 0
  /\ max_depth = 0
  /\ params = [nodes |-> 0, mate |-> 0, limited_time |-> FALSE]
  /\ data = NoData
  /\ root = NoRoot
  /\ stack = << >>
  /\ tt = [k \in 0..(TT_CAPACITY - 1) |-> ZeroEntry]
  /\ result = NoResult
  /\ out = << >>
  /\ expired = FALSE
  /\ flag_access = "none"
  /\ stop_requested = FALSE
  /\ iter_cut = FALSE
  /\ hist = << >>
  /\ counted = 0

(***************************************************************************)
(* run_search, lines 994-1036.  With no legal move best_move is never      *)
(* assigned: its value is indeterminate.                                   *)
(***************************************************************************)
RunSearchStart ==
  /\ UNCHANGED others
  /\ pc = "start"
  /\ LET moves == get_pseudo_legal_moves(arg.pos)
         has_legal == LegalIndices(arg.pos) # {}
     IN  IF Len(moves) = 0 \/ (~has_legal /\ is_in_check(arg.pos))
         THEN /\ pc' = "returned"
              /\ UNCHANGED <<best_move, params, nodes, max_depth, depth>>
         ELSE /\ IF has_legal
                 THEN best_move' = InitialBestMove(arg.pos)
                 ELSE best_move' \in Moves
              /\ IF arg.perft # 0
                 THEN /\ pc' = "perft"
                      /\ UNCHANGED <<params, nodes, max_depth, depth>>
                 ELSE /\ pc' = "iter"
                      /\ params' = [nodes |-> ParamsNodes(arg), mate |-> arg.mate,
                                    limited_time |-> LimitedTime(arg)]
                      /\ nodes' = ParamsNodes(arg)
                      /\ max_depth' = MaxDepthOf(arg)
                      /\ depth' = 1
  /\ flag_access' = "none"
  /\ UNCHANGED <<arg, running, running_mtx, data, root, stack, tt, result, out,
                 expired, stop_requested, iter_cut, hist, counted>>

(***************************************************************************)
(* run_search, lines 1018-1024: perft, then running = false under the      *)
(* mutex.  No best_move_sender call.                                       *)
(***************************************************************************)
Perft ==
  /\ UNCHANGED others
  /\ pc = "perft"
  /\ running_mtx = "free"
  /\ out' = Append(out, Info(0, 0, 0, {"NODES", "NPS"}, movegen_perft(arg.pos, arg.perft)))
  /\ running' = FALSE
  /\ flag_access' = "held"
  /\ pc' = "returned"
  /\ UNCHANGED <<arg, running_mtx, best_move, nodes, depth, max_depth, params, data,
                 root, stack, tt, result, expired, stop_requested, iter_cut, hist,
                 counted>>

(***************************************************************************)
(* run_search line 1038-1042 and search() lines 751-779: the guard of the  *)
(* iterative-deepening loop, then the set-up of one root search.           *)
(***************************************************************************)
IterStart ==
  /\ UNCHANGED others
  /\ pc = "iter"
  /\ IF depth <= max_depth /\ nodes > 0
     THEN /\ params' = [params EXCEPT !.nodes = nodes]
          /\ data' = NoData
          /\ root' = [NoRoot EXCEPT !.moves = get_pseudo_legal_moves(arg.pos)]
          /\ iter_cut' = FALSE
          /\ pc' = "root_loop"
     ELSE /\ pc' = "send"
          /\ UNCHANGED <<params, data, root, iter_cut>>
  /\ flag_access' = "none"
  /\ UNCHANGED <<arg, running, running_mtx, best_move, nodes, depth, max_depth,
                 stack, tt, result, out, expired, stop_requested, hist, counted>>

(***************************************************************************)
(* search() lines 780-800: one turn of the root loop.  The flag is tested  *)
(* under the mutex; an illegal move is skipped; a legal one is made and    *)
(* negamax entered.                                                        *)
(***************************************************************************)
RootLoop ==
  /\ UNCHANGED others
  /\ pc = "root_loop"
  /\ IF root.i > Len(root.moves)
     THEN /\ pc' = "search_end"
          /\ flag_access' = "none"
          /\ UNCHANGED <<running, root, stack, data, iter_cut>>
     ELSE /\ running_mtx = "free"
          /\ flag_access' = "held"
          /\ LET r == running /\ ~BudgetExhausted(data.nodes, params.nodes)
                 move == root.moves[root.i]
             IN  /\ running' = r
                 /\ IF StopObserved(r)
                    THEN /\ pc' = "search_end"
                         /\ iter_cut' = TRUE
                         /\ UNCHANGED <<root, stack, data>>
                    ELSE IF ~move_is_legal(arg.pos, move)
                    THEN /\ root' = [root EXCEPT !.i = @ + 1]
                         /\ pc' = "root_loop"
                         /\ UNCHANGED <<stack, data, iter_cut>>
                    ELSE /\ stack' = <<Frame("negamax", do_move(arg.pos, move), depth - 1,
                                             -INF, -root.alpha, "move", move)>>
                         /\ data' = [data EXCEPT !.ply = @ + 1]
                         /\ pc' = "call"
                         /\ UNCHANGED <<root, iter_cut>>
  /\ UNCHANGED <<arg, running_mtx, best_move, nodes, depth, max_depth, params, tt,
                 result, out, expired, stop_requested, hist, counted>>

(***************************************************************************)
(* Pieces of negamax and qsearch that touch only the invocation's locals.  *)
(***************************************************************************)
\* negamax lines 587-593: the locals before the move loop
NegamaxMoves(f) ==
  [f EXCEPT !.pc = "loop", !.moves = get_pseudo_legal_moves(f.pos), !.i = 1,
            !.best_score = -INF, !.best_move = 0, !.has_legal = FALSE,
            !.eval = evaluate(f.pos)]

\* negamax lines 664-677, qsearch lines 488-501: after the move loop
AfterLoop(f, ply) ==
  LET bm == IF f.best_move = 0 /\ f.has_legal THEN f.moves[1] ELSE f.best_move
      sc == IF f.has_legal THEN f.best_score
            ELSE IF is_in_check(f.pos) THEN -INF + ply ELSE 0
  IN  [f EXCEPT !.pc = "store", !.best_move = bm, !.best_score = sc,
                !.alpha = IF f.has_legal THEN f.alpha ELSE sc]

\* negamax lines 649-656, qsearch lines 475-482: a move's score came back
Scored(f, score, move) ==
  IF score > f.best_score
  THEN [f EXCEPT !.best_score = score, !.best_move = move,
                 !.alpha = IF score > f.alpha THEN score ELSE f.alpha,
                 !.type = IF score > f.alpha THEN "EXACT" ELSE f.type]
  ELSE f

\* negamax lines 617-636: futility and reverse futility pruning of a quiet move
Futility(f, move) ==
  LET on == /\ move_is_quiet(move)
            /\ ~f.in_check
            /\ Abs(f.alpha) < INF - MAX_PLY
            /\ Abs(f.beta) < INF - MAX_PLY
  IN  IF on /\ f.eval + FUTILITY_MARGIN * f.depth <= f.alpha
      THEN [prune |-> TRUE, score |-> f.eval]
      ELSE IF on /\ f.eval - FUTILITY_MARGIN * f.depth >= f.beta
      THEN [prune |-> TRUE, score |-> f.eval - FUTILITY_MARGIN * f.depth]
      ELSE [prune |-> FALSE, score |-> 0]

(***************************************************************************)
(* negamax lines 524-593: the critical section at the top (clock poll,     *)
(* node budget, ply ceiling, the flag), then the node count, repetition,   *)
(* the table probe, the drop into qsearch at depth 0, the null move.       *)
(* late: the clock reading is at or past stop_time (the clock never runs   *)
(* backwards).                                                             *)
(***************************************************************************)
NegamaxEnter ==
  /\ UNCHANGED others
  /\ pc = "call"
  /\ Top.fn = "negamax"
  /\ Top.pc = "enter"
  /\ running_mtx = "free"
  /\ \E late \in BOOLEAN :
       LET f == Top
           polls == data.nodes % CLOCK_POLL_NODES = 0 /\ params.limited_time
           r == /\ running
                /\ ~(polls /\ late)
                /\ ~(BudgetExhausted(data.nodes, params.nodes) \/ data.ply > MAX_PLY)
           d1 == [data EXCEPT !.nodes = @ + 1]
           probe == tt_probe(tt, f.pos, f.depth, f.alpha, f.beta, data.ply)
       IN  /\ expired => late
           /\ ~polls => (late = expired)
           /\ expired' = late
           /\ running' = r
           /\ flag_access' = "held"
           /\ IF StopObserved(r)
              THEN /\ stack' = SetTop([f EXCEPT !.pc = "ret", !.ret = f.alpha, !.early = TRUE])
                   /\ iter_cut' = TRUE
                   /\ UNCHANGED <<data, counted>>
              ELSE /\ UNCHANGED iter_cut
                   /\ IF repeated(f.pos, stack, arg.pos)
                      THEN /\ stack' = SetTop([f EXCEPT !.pc = "ret", !.ret = 0])
                           /\ data' = d1
                           /\ counted' = counted + 1
                      ELSE IF probe.cut
                      THEN /\ stack' = SetTop([f EXCEPT !.pc = "ret", !.ret = probe.score])
                           /\ data' = d1
                           /\ counted' = counted + 1
                      ELSE IF f.depth = 0
                      THEN \* counted, then uncounted: qsearch counts the node
                           /\ stack' = SetTop([f EXCEPT !.fn = "qsearch"])
                           /\ UNCHANGED <<data, counted>>
                      ELSE IF /\ ~is_in_check(f.pos)
                              /\ ~is_zugzwang_likely(f.pos)
                              /\ f.depth > NULL_MOVE_REDUCTION
                      THEN /\ stack' = Append(SetTop([f EXCEPT !.pc = "null",
                                                               !.in_check = FALSE]),
                                              Frame("negamax", do_null_move(f.pos),
                                                    f.depth - NULL_MOVE_REDUCTION,
                                                    -f.beta, -f.alpha, "null", 0))
                           /\ data' = d1
                           /\ counted' = counted + 1
                      ELSE /\ stack' = SetTop(NegamaxMoves([f EXCEPT !.in_check =
                                                              is_in_check(f.pos)]))
                           /\ data' = d1
                           /\ counted' = counted + 1
  /\ UNCHANGED <<arg, running_mtx, pc, best_move, nodes, depth, max_depth, params,
                 root, tt, result, out, stop_requested, hist>>

(***************************************************************************)
(* qsearch lines 398-437: the critical section, the node count,            *)
(* repetition, the table probe, the stand-pat score.                       *)
(***************************************************************************)
QsearchEnter ==
  /\ UNCHANGED others
  /\ pc = "call"
  /\ Top.fn = "qsearch"
  /\ Top.pc = "enter"
  /\ running_mtx = "free"
  /\ LET f == Top
         over == BudgetExhausted(data.nodes, params.nodes)
         r == running /\ ~(over \/ data.ply > MAX_PLY)
         d1 == [data EXCEPT !.nodes = @ + 1]
         probe == tt_probe(tt, f.pos, f.depth, f.alpha, f.beta, data.ply)
         stand == evaluate(f.pos)
     IN  /\ running' = r
         /\ flag_access' = "held"
         /\ IF StopObserved(r) \/ over
            THEN /\ stack' = SetTop([f EXCEPT !.pc = "ret", !.ret = f.alpha, !.early = TRUE])
                 /\ iter_cut' = TRUE
                 /\ UNCHANGED <<data, counted>>
            ELSE /\ UNCHANGED iter_cut
                 /\ data' = d1
                 /\ counted' = counted + 1
                 /\ IF repeated(f.pos, stack, arg.pos)
                    THEN stack' = SetTop([f EXCEPT !.pc = "ret", !.ret = 0])
                    ELSE IF probe.cut
                    THEN stack' = SetTop([f EXCEPT !.pc = "ret", !.ret = probe.score])
                    ELSE IF stand >= f.beta /\ ~is_in_check(f.pos)
                    THEN stack' = SetTop([f EXCEPT !.pc = "ret", !.ret = stand])
                    ELSE stack' = SetTop([f EXCEPT
                           !.pc = "loop", !.moves = get_pseudo_legal_moves(f.pos),
                           !.i = 1, !.best_score = stand, !.best_move = 0,
                           !.has_legal = FALSE, !.type = "ALPHA_UNCHANGED",
                           !.alpha = IF stand > f.alpha THEN stand ELSE f.alpha])
  /\ UNCHANGED <<arg, running_mtx, pc, best_move, nodes, depth, max_depth, params,
                 root, tt, result, out, expired, stop_requested, hist>>

(***************************************************************************)
(* negamax lines 595-647: one turn of the move loop.  The most promising   *)
(* of the remaining moves is swapped to the front; an illegal move is      *)
(* skipped; a quiet move may prune the node; otherwise the move is made    *)
(* and negamax entered one ply deeper.  Past the last move: lines 664-677. *)
(***************************************************************************)
NegamaxLoop ==
  /\ UNCHANGED others
  /\ pc = "call"
  /\ Top.fn = "negamax"
  /\ Top.pc = "loop"
  /\ LET f == Top
         len == Len(f.moves)
     IN  IF f.i > len
         THEN /\ stack' = SetTop(AfterLoop(f, data.ply))
              /\ UNCHANGED data
         ELSE LET j == f.i - 1 + get_next_move(SubSeq(f.moves, f.i, len),
                                               data.killers[f.depth], f.pos, tt)
                  ms == Swap(f.moves, f.i, j)
                  move == ms[f.i]
                  g == [f EXCEPT !.moves = ms, !.has_legal = TRUE]
                  fut == Futility(g, move)
              IN  IF ~move_is_legal(f.pos, move)
                  THEN /\ stack' = SetTop([f EXCEPT !.moves = ms, !.i = @ + 1])
                       /\ UNCHANGED data
                  ELSE IF fut.prune
                  THEN /\ stack' = SetTop([g EXCEPT !.pc = "ret", !.ret = fut.score])
                       /\ UNCHANGED data
                  ELSE /\ stack' = Append(SetTop(g),
                                          Frame("negamax", do_move(f.pos, move),
                                                f.depth - 1, -f.beta, -f.alpha,
                                                "move", move))
                       /\ data' = [data EXCEPT !.ply = @ + 1]
  /\ flag_access' = "none"
  /\ UNCHANGED <<arg, running, running_mtx, pc, best_move, nodes, depth, max_depth,
                 params, root, tt, result, out, expired, stop_requested, iter_cut,
                 hist, counted>>

(***************************************************************************)
(* qsearch lines 438-470: one turn of the capture loop.                    *)
(***************************************************************************)
QsearchLoop ==
  /\ UNCHANGED others
  /\ pc = "call"
  /\ Top.fn = "qsearch"
  /\ Top.pc = "loop"
  /\ LET f == Top
         len == Len(f.moves)
     IN  IF f.i > len
         THEN /\ stack' = SetTop(AfterLoop(f, data.ply))
              /\ UNCHANGED data
         ELSE LET rest == SubSeq(f.moves, f.i, len)
                  q == get_next_qmove(rest, f.pos, tt)
                  j == f.i - 1 + q.idx
                  ms == Swap(f.moves, f.i, j)
                  move == ms[f.i]
                  legal == move_is_legal(f.pos, move)
                  g == [f EXCEPT !.moves = ms,
                                 !.has_legal = f.has_legal \/ legal]
              IN  IF q.ended
                  THEN \* no capture left: look for a legal move among the rest
                       /\ stack' = SetTop(AfterLoop(
                            [f EXCEPT !.has_legal =
                               f.has_legal \/ has_legal_moves(rest, f.pos)],
                            data.ply))
                       /\ UNCHANGED data
                  ELSE IF ~legal \/ ~move_is_capture(move)
                  THEN /\ stack' = SetTop([g EXCEPT !.i = @ + 1])
                       /\ UNCHANGED data
                  ELSE /\ stack' = Append(SetTop(g),
                                          Frame("qsearch", do_move(f.pos, move),
                                                f.depth - 1, -f.beta, -f.alpha,
                                                "move", move))
                       /\ data' = [data EXCEPT !.ply = @ + 1]
  /\ flag_access' = "none"
  /\ UNCHANGED <<arg, running, running_mtx, pc, best_move, nodes, depth, max_depth,
                 params, root, tt, result, out, expired, stop_requested, iter_cut,
                 hist, counted>>

(***************************************************************************)
(* negamax lines 679-686, qsearch lines 503-510: running is read without   *)
(* the mutex; if it is set the node is stored in the table.  A read that   *)
(* races with the caller's write sees the old or the new value: both       *)
(* orders of this step and StopWrite are behaviours of the model.          *)
(***************************************************************************)
StoreNode ==
  /\ UNCHANGED others
  /\ pc = "call"
  /\ Top.pc = "store"
  /\ LET f == Top
     IN  /\ tt' = IF running
                  THEN store_tt_entry(tt,
                         init_tt_entry(score_to_ttscore(f.best_score, data.ply),
                                       f.depth, f.type, f.best_move, f.pos))
                  ELSE tt
         /\ stack' = SetTop([f EXCEPT !.pc = "ret", !.ret = f.best_score])
  /\ flag_access' = "unheld"
  /\ UNCHANGED <<arg, running, running_mtx, pc, best_move, nodes, depth, max_depth,
                 params, data, root, result, out, expired, stop_requested, iter_cut,
                 hist, counted>>

(***************************************************************************)
(* An invocation returns to the one that called it.                        *)
(***************************************************************************)
Parent == stack[Len(stack) - 1]

Pop(p) == [SubSeq(stack, 1, Len(stack) - 1) EXCEPT ![Len(stack) - 1] = p]

\* search() lines 801-813
ReturnToRoot ==
  /\ UNCHANGED others
  /\ pc = "call"
  /\ Len(stack) = 1
  /\ Top.pc = "ret"
  /\ LET score == -Top.ret
         move == Top.move
         alpha == IF score > root.alpha THEN score ELSE root.alpha
         best == IF score > root.alpha THEN move ELSE root.best
         mated == params.mate # 0 /\ alpha >= INF - MAX_PLY
     IN  /\ root' = [root EXCEPT !.alpha = alpha,
                                 !.best = IF mated THEN move ELSE best,
                                 !.found_mate = mated,
                                 !.i = IF mated THEN @ ELSE @ + 1]
         /\ pc' = IF mated THEN "search_end" ELSE "root_loop"
  /\ stack' = << >>
  /\ data' = [data EXCEPT !.ply = @ - 1]
  /\ flag_access' = "none"
  /\ UNCHANGED <<arg, running, running_mtx, best_move, nodes, depth, max_depth,
                 params, tt, result, out, expired, stop_requested, iter_cut, hist,
                 counted>>

\* negamax lines 581-585: back from the null-move search
ReturnFromNull ==
  /\ UNCHANGED others
  /\ pc = "call"
  /\ Len(stack) > 1
  /\ Top.pc = "ret"
  /\ Top.via = "null"
  /\ LET score == -Top.ret
         p == Parent
     IN  stack' = Pop(IF score >= p.beta
                      THEN [p EXCEPT !.pc = "ret", !.ret = p.beta]
                      ELSE NegamaxMoves(p))
  /\ flag_access' = "none"
  /\ UNCHANGED <<arg, running, running_mtx, pc, best_move, nodes, depth, max_depth,
                 params, data, root, tt, result, out, expired, stop_requested,
                 iter_cut, hist, counted>>

\* negamax lines 645-663
ReturnToNegamax ==
  /\ UNCHANGED others
  /\ pc = "call"
  /\ Len(stack) > 1
  /\ Top.pc = "ret"
  /\ Top.via = "move"
  /\ Parent.fn = "negamax"
  /\ LET move == Top.move
         p == Scored(Parent, -Top.ret, move)
     IN  IF p.alpha >= p.beta
         THEN /\ data' = [data EXCEPT
                    !.ply = @ - 1,
                    !.killers[p.depth] = IF ~move_is_capture(move)
                                         THEN store_killer(@, move) ELSE @]
              /\ stack' = Pop(AfterLoop([p EXCEPT !.type = "CUT"], data.ply - 1))
         ELSE /\ data' = [data EXCEPT !.ply = @ - 1]
              /\ stack' = Pop([p EXCEPT !.i = @ + 1])
  /\ flag_access' = "none"
  /\ UNCHANGED <<arg, running, running_mtx, pc, best_move, nodes, depth, max_depth,
                 params, root, tt, result, out, expired, stop_requested, iter_cut,
                 hist, counted>>

\* qsearch lines 471-487
ReturnToQsearch ==
  /\ UNCHANGED others
  /\ pc = "call"
  /\ Len(stack) > 1
  /\ Top.pc = "ret"
  /\ Top.via = "move"
  /\ Parent.fn = "qsearch"
  /\ LET p == Scored(Parent, -Top.ret, Top.move)
     IN  stack' = Pop(IF p.alpha >= p.beta
                      THEN AfterLoop([p EXCEPT !.type = "CUT"], data.ply - 1)
                      ELSE [p EXCEPT !.i = @ + 1])
  /\ data' = [data EXCEPT !.ply = @ - 1]
  /\ flag_access' = "none"
  /\ UNCHANGED <<arg, running, running_mtx, pc, best_move, nodes, depth, max_depth,
                 params, root, tt, result, out, expired, stop_requested, iter_cut,
                 hist, counted>>

(***************************************************************************)
(* search() lines 815-851: the info record of the iteration (running is    *)
(* read without the mutex for the lower-bound flag), the fallback for      *)
(* result.best (a loop without break: the last legal move), the result.    *)
(* nps and time are wall-clock values and are left out of the record.      *)
(***************************************************************************)
InfoOf(alpha, d, n, run) ==
  LET bound == IF run THEN {} ELSE {"LBOUND"}
      base == {"DEPTH", "NODES", "NPS", "TIME"} \cup bound
  IN  IF alpha >= INF - MAX_PLY
      THEN Info(d, alpha, (INF - alpha + 1) \div 2, base \cup {"MATE"}, n)
      ELSE IF alpha <= -INF + MAX_PLY
      THEN Info(d, alpha, -((INF + alpha + 1) \div 2), base \cup {"MATE"}, n)
      ELSE Info(d, alpha, 0, base \cup {"CP"}, n)

\* lines 839-844
ResultBest(best, pos) ==
  IF best = 0 /\ LegalIndices(pos) # {}
  THEN Game[pos].moves[Max(LegalIndices(pos))].mv
  ELSE best

SearchEnd ==
  /\ UNCHANGED others
  /\ pc = "search_end"
  /\ out' = Append(out, InfoOf(root.alpha, depth, data.nodes, running))
  /\ result' = [best |-> ResultBest(root.best, arg.pos),
                found_mate |-> root.found_mate, nodes |-> data.nodes]
  /\ data' = NoData
  /\ root' = NoRoot
  /\ pc' = "iter_check"
  /\ flag_access' = "unheld"
  /\ UNCHANGED <<arg, running, running_mtx, best_move, nodes, depth, max_depth,
                 params, stack, tt, expired, stop_requested, iter_cut, hist,
                 counted>>

(***************************************************************************)
(* run_search lines 1044-1055: the budget left, then under the mutex: with *)
(* running false the iteration's result is dropped and the loop left; else *)
(* the result becomes best_move, and the loop goes on unless a mate that   *)
(* was asked for is found.                                                 *)
(***************************************************************************)
\* a check that adopts the result whatever the flag says
IterationDroppedNever(run) == FALSE

\* if (!*arg->running) break
IterationDropped(run) == ~run

IterCheck ==
  /\ UNCHANGED others
  /\ pc = "iter_check"
  /\ running_mtx = "free"
  /\ nodes' = nodes - result.nodes
  /\ flag_access' = "held"
  /\ IF IterationDropped(running)
     THEN /\ pc' = "send"
          /\ hist' = Append(hist, [depth |-> depth, best |-> result.best,
                                   cut |-> iter_cut, adopted |-> FALSE])
          /\ UNCHANGED <<best_move, depth>>
     ELSE /\ best_move' = result.best
          /\ hist' = Append(hist, [depth |-> depth, best |-> result.best,
                                   cut |-> iter_cut, adopted |-> TRUE])
          /\ IF params.mate # 0 /\ result.found_mate
             THEN pc' = "send" /\ UNCHANGED depth
             ELSE pc' = "iter" /\ depth' = depth + 1
  /\ UNCHANGED <<arg, running, running_mtx, max_depth, params, data, root, stack,
                 tt, result, out, expired, stop_requested, iter_cut, counted>>

\* run_search line 1057
SendBestMove ==
  /\ UNCHANGED others
  /\ pc = "send"
  /\ out' = Append(out, BestMove(best_move))
  /\ pc' = "finish"
  /\ flag_access' = "none"
  /\ UNCHANGED <<arg, running, running_mtx, best_move, nodes, depth, max_depth,
                 params, data, root, stack, tt, result, expired, stop_requested,
                 iter_cut, hist, counted>>

\* run_search lines 1059-1063
Finish ==
  /\ UNCHANGED others
  /\ pc = "finish"
  /\ running_mtx = "free"
  /\ running' = FALSE
  /\ pc' = "returned"
  /\ flag_access' = "held"
  /\ UNCHANGED <<arg, running_mtx, best_move, nodes, depth, max_depth, params,
                 data, root, stack, tt, result, out, expired, stop_requested,
                 iter_cut, hist, counted>>

(***************************************************************************)
(* The calling thread.  search.h: while the search runs it changes nothing *)
(* of the argument but what running and running_mtx point to; it stops the *)
(* search by clearing running under the mutex.                             *)
(***************************************************************************)
StopLock ==
  /\ UNCHANGED others
  /\ pc # "returned"
  /\ ~stop_requested
  /\ running_mtx = "free"
  /\ running_mtx' = "caller"
  /\ UNCHANGED <<arg, running, pc, best_move, nodes, depth, max_depth, params,
                 data, root, stack, tt, result, out, expired, flag_access,
                 stop_requested, iter_cut, hist, counted>>

StopWrite ==
  /\ UNCHANGED others
  /\ running_mtx = "caller"
  /\ running' = FALSE
  /\ running_mtx' = "free"
  /\ stop_requested' = TRUE
  /\ UNCHANGED <<arg, pc, best_move, nodes, depth, max_depth, params, data, root,
                 stack, tt, result, out, expired, flag_access, iter_cut, hist,
                 counted>>

Worker ==
  \/ RunSearchStart
  \/ Perft
  \/ IterStart
  \/ RootLoop
  \/ NegamaxEnter
  \/ QsearchEnter
  \/ NegamaxLoop
  \/ QsearchLoop
  \/ StoreNode
  \/ ReturnToRoot
  \/ ReturnFromNull
  \/ ReturnToNegamax
  \/ ReturnToQsearch
  \/ SearchEnd
  \/ IterCheck
  \/ SendBestMove
  \/ Finish

Next == Worker \/ StopLock \/ StopWrite

Spec == Init /\ [][Next]_vars

(***************************************************************************)
(* The worker is a thread of its own and the scheduler lets it run; the    *)
(* caller releases the mutex it has taken.                                 *)
(***************************************************************************)
FairSpec == Spec /\ WF_vars(Worker) /\ WF_vars(StopWrite)

(***************************************************************************)
(* What the properties speak of.                                           *)
(***************************************************************************)
InfoIndices == {k \in 1..Len(out) : out[k].kind = "info"}

BestMoveIndices == {k \in 1..Len(out) : out[k].kind = "bestmove"}

BestMoveSent == BestMoveIndices # {}

SentMove == out[Max(BestMoveIndices)].move

RootHasLegal == LegalIndices(arg.pos) # {}

IsLegalRootMove(m) == \E k \in LegalIndices(arg.pos) : Game[arg.pos].moves[k].mv = m

FirstLegalMove == Game[arg.pos].moves[Min(LegalIndices(arg.pos))].mv

LastLegalMove == Game[arg.pos].moves[Max(LegalIndices(arg.pos))].mv

\* iterations that ran to completion: no poll found the flag cleared
Completed == {k \in 1..Len(hist) : ~hist[k].cut}

Adopted == {k \in 1..Len(hist) : hist[k].adopted}

(***************************************************************************)
(* C1: for every root position (checkmate and stalemate included) and      *)
(* every timing of stop, run_search calls best_move_sender exactly once,   *)
(* after the last info_sender call, and with no legal root move the move   *)
(* passed is 0.  Stated for searches (perft not asked for) at the moment   *)
(* run_search has returned.  The code violates it.                         *)
(***************************************************************************)
C1_ExactlyOneBestMove ==
  (pc = "returned" /\ arg.perft = 0) =>
    /\ Cardinality(BestMoveIndices) = 1
    /\ out[Len(out)].kind = "bestmove"
    /\ ~RootHasLegal => SentMove = 0

(***************************************************************************)
(* C2: for a root with at least one legal move, whatever the limits and    *)
(* whenever running is cleared, every move passed to best_move_sender is a *)
(* legal move of the root: not 0, not a move that is only pseudo-legal.    *)
(***************************************************************************)
C2_BestMoveLegal ==
  RootHasLegal =>
    \A k \in BestMoveIndices : out[k].move # 0 /\ IsLegalRootMove(out[k].move)

\* the caller stopped the search in the middle of an iteration, a move was sent
C2_Witness ==
  /\ arg.pos = RootPos.normal
  /\ stop_requested
  /\ BestMoveSent
  /\ Len(hist) > 0
  /\ hist[Len(hist)].cut

(***************************************************************************)
(* C3 as claimed: when the caller clears running, the move sent is the     *)
(* best move of the last iteration that ran to completion; a cut-short     *)
(* iteration is never adopted and a completed one never dropped.  The code *)
(* violates it: a completed iteration is dropped when the flag is cleared  *)
(* between its end and the check that follows it.                          *)
(***************************************************************************)
C3_LastCompletedIteration ==
  (stop_requested /\ BestMoveSent /\ RootHasLegal) =>
    /\ \A k \in 1..Len(hist) : hist[k].adopted <=> ~hist[k].cut
    /\ Completed # {} => SentMove = hist[Max(Completed)].best

(***************************************************************************)
(* C3 as amended: when the caller clears running, the move sent is the     *)
(* best move of the last iteration after which the worker, at its check    *)
(* under the mutex, still found running set.  No cut-short iteration is    *)
(* adopted; only the last iteration that ran can be dropped (it is dropped *)
(* even though it completed when the flag was cleared before that check),  *)
(* every iteration before it was adopted.                                  *)
(***************************************************************************)
C3_LastAdoptedIteration ==
  /\ \A k \in 1..Len(hist) : hist[k].adopted => ~hist[k].cut
  /\ \A k \in 1..Len(hist) : k < Len(hist) => hist[k].adopted
  /\ (stop_requested /\ BestMoveSent /\ Adopted # {}) =>
       SentMove = hist[Max(Adopted)].best

\* stopped inside the second iteration: the first iteration's move is sent
C3_Witness ==
  /\ arg.pos = RootPos.normal
  /\ stop_requested
  /\ BestMoveSent
  /\ Len(hist) = 2
  /\ hist[1].adopted
  /\ hist[2].cut
  /\ SentMove = hist[1].best
  /\ SentMove # LastLegalMove

(***************************************************************************)
(* C4 as claimed: if no iteration completed, the move sent is the first    *)
(* legal move in the order the root's pseudo-legal moves were generated.   *)
(* The code violates it.                                                   *)
(***************************************************************************)
C4_FirstLegalMove ==
  (BestMoveSent /\ RootHasLegal /\ Completed = {}) => SentMove = FirstLegalMove

(***************************************************************************)
(* C4 as amended: if no iteration completed, the move sent is the last     *)
(* legal move in the order the root's pseudo-legal moves were generated.   *)
(***************************************************************************)
C4_LastLegalMove ==
  (BestMoveSent /\ RootHasLegal /\ Completed = {}) => SentMove = LastLegalMove

\* the first iteration was cut short, and the root has two legal moves
C4_Witness ==
  /\ BestMoveSent
  /\ arg.pos = RootPos.normal
  /\ Len(hist) = 1
  /\ hist[1].cut
  /\ SentMove = LastLegalMove
  /\ FirstLegalMove # LastLegalMove

(***************************************************************************)
(* C5: once running is false, every negamax or qsearch invocation entered  *)
(* afterwards returns its alpha without making a move on the position or   *)
(* calling deeper, the root loop examines no further move, and, for a root *)
(* with at least one legal move and a worker the scheduler lets run,       *)
(* run_search eventually calls best_move_sender and returns.               *)
(***************************************************************************)
C5_StopIsObserved ==
  /\ [][(~running /\ pc = "call" /\ Len(stack) > 0 /\ Top.pc = "enter"
          /\ stack' # stack) =>
          /\ Len(stack') = Len(stack)
          /\ stack'[Len(stack)].pc = "ret"
          /\ stack'[Len(stack)].ret = Top.alpha
          /\ data'.ply = data.ply]_vars
  /\ [][(~running /\ pc = "root_loop") =>
          /\ root' = root
          /\ stack' = stack
          /\ pc' \in {"root_loop", "search_end"}]_vars
  /\ (~running /\ RootHasLegal /\ arg.perft = 0)
       ~> (pc = "returned" /\ BestMoveSent)

\* an invocation entered after the caller's stop has returned at once,
\* in a search that no budget and no clock could have ended
C5_Witness ==
  /\ stop_requested
  /\ arg.pos = RootPos.normal
  /\ arg.infinite
  /\ arg.time = 0
  /\ arg.movetime = 0
  /\ pc = "call"
  /\ Len(stack) > 1
  /\ Top.pc = "ret"
  /\ Top.early

(***************************************************************************)
(* C6: a search limited by depth d alone (1 <= d <= MAX_DEPTH, infinite    *)
(* false, the unused limits 0 as search.h prescribes) that is never        *)
(* stopped runs the iterations 1..d, calls info_sender once per iteration  *)
(* and then best_move_sender once.  The code violates it.                  *)
(***************************************************************************)
C6_DepthOnly ==
  (/\ pc = "returned"
   /\ RootHasLegal
   /\ ~stop_requested
   /\ ~arg.infinite
   /\ arg.depth \in 1..MAX_DEPTH
   /\ arg.nodes = 0 /\ arg.mate = 0 /\ arg.perft = 0
   /\ arg.time = 0 /\ arg.movetime = 0) =>
    /\ Len(out) = arg.depth + 1
    /\ \A k \in 1..arg.depth : out[k].kind = "info" /\ out[k].depth = k
    /\ out[Len(out)].kind = "bestmove"

(***************************************************************************)
(* C7: with a finite positive node budget N (infinite and mate unset) the  *)
(* nodes counted by the search, summed over all iterations, never exceed   *)
(* N, and no iteration is under way that started with nothing left of the  *)
(* budget.                                                                 *)
(***************************************************************************)
C7_NodeBudget ==
  (~arg.infinite /\ arg.mate = 0 /\ arg.nodes > 0) =>
    /\ counted <= arg.nodes
    /\ pc \in {"root_loop", "call", "search_end"} => params.nodes > 0

\* the budget is used up to the last node in the second iteration
C7_Witness ==
  /\ ~arg.infinite
  /\ arg.mate = 0
  /\ arg.nodes = LargeBudget
  /\ counted = arg.nodes
  /\ Len(hist) = 2
  /\ hist[1].adopted
  /\ hist[2].cut

(***************************************************************************)
(* C8: with infinite set no bestmove is emitted until the caller clears    *)
(* running, and depth, nodes, movetime, time and inc have no influence on  *)
(* when the search ends.  The code violates it.                            *)
(***************************************************************************)
C8_InfiniteUntilStop ==
  (arg.infinite /\ arg.mate = 0 /\ BestMoveSent) => stop_requested

(***************************************************************************)
(* C9: every read and write of running made by the worker (in run_search,  *)
(* search, perft, negamax and qsearch) happens while running_mtx is held.  *)
(* The code violates it.                                                   *)
(***************************************************************************)
C9_FlagUnderMutex == flag_access # "unheld"

(***************************************************************************)
(* C10: at a stalemate root every info carries the centipawn flag and not  *)
(* the mate flag, with cp 0, and the move passed to best_move_sender is 0. *)
(* The code violates it.                                                   *)
(***************************************************************************)
C10_StalemateInfo ==
  arg.pos = RootPos.stalemate =>
    /\ \A k \in InfoIndices :
         "CP" \in out[k].flags /\ "MATE" \notin out[k].flags /\ out[k].cp = 0
    /\ \A k \in BestMoveIndices : out[k].move = 0

(***************************************************************************)
(* The components below are exercised on their own: the search stands      *)
(* still in the state in which run_search has not been called.             *)
(***************************************************************************)
SearchIdle ==
  /\ arg = [pos |-> RootPos.normal, infinite |-> FALSE, depth |-> 0, mate |-> 0,
            perft |-> 0, nodes |-> 0, time |-> 0, movetime |-> 0]
  /\ running = TRUE
  /\ running_mtx = "free"
  /\ pc = "start"
  /\ best_move = 0
  /\ nodes = 0
  /\ depth = 0
  /\ max_depth = 0
  /\ params = [nodes |-> 0, mate |-> 0, limited_time |-> FALSE]
  /\ data = NoData
  /\ root = NoRoot
  /\ stack = << >>
  /\ tt = [k \in 0..(TT_CAPACITY - 1) |-> ZeroEntry]
  /\ result = NoResult
  /\ out = << >>
  /\ expired = FALSE
  /\ flag_access = "none"
  /\ stop_requested = FALSE
  /\ iter_cut = FALSE
  /\ hist = << >>
  /\ counted = 0

search_vars ==
  <<arg, running, running_mtx, pc, best_move, nodes, depth, max_depth, params,
    data, root, stack, result, out, expired, flag_access, stop_requested,
    iter_cut, hist, counted>>

(***************************************************************************)
(* The transposition table by itself (src/tt.c): tt_init, clear_tt,        *)
(* store_tt_entry and get_tt_entry called in any order on the table tt.    *)
(***************************************************************************)
\* the positions probed and stored: one more than there are slots, so that
\* two of them share a slot; position 0 is the one whose hash is 0
TTPositions == 0..TT_CAPACITY

\* the entries init_tt_entry is asked to build
TTEntries ==
  {init_tt_entry(sc, 1, "EXACT", 2, pos) : sc \in {0, 50}, pos \in TTPositions}

\* tt_init: calloc of the slots
tt_init ==
  /\ tt' = [k \in 0..(TT_CAPACITY - 1) |-> ZeroEntry]
  /\ tt_log' = NoLog
  /\ UNCHANGED <<call, position, pos_log, uci, search_vars>>

\* clear_tt: memset of the slots to 0
clear_tt ==
  /\ tt' = [k \in 0..(TT_CAPACITY - 1) |-> ZeroEntry]
  /\ tt_log' = NoLog
  /\ UNCHANGED <<call, position, pos_log, uci, search_vars>>

StoreEntry ==
  /\ \E e \in TTEntries :
       /\ tt' = store_tt_entry(tt, e)
       /\ tt_log' = [tt_log EXCEPT !.stored[e.hash % TT_CAPACITY] = <<e>>,
                                   !.probe = << >>]
  /\ UNCHANGED <<call, position, pos_log, uci, search_vars>>

GetEntry ==
  /\ \E pos \in TTPositions :
       LET h == get_tt_entry(tt, pos)
       IN  tt_log' = [tt_log EXCEPT
                        !.probe = <<[pos |-> pos, hit |-> h.hit, data |-> h.data]>>]
  /\ UNCHANGED <<tt, call, position, pos_log, uci, search_vars>>

TTNext == tt_init \/ clear_tt \/ StoreEntry \/ GetEntry

\* the table after search_init, nothing stored
TTInit == SearchIdle /\ OthersIdle

TTSpec == TTInit /\ [][TTNext]_vars

(***************************************************************************)
(* C11: after any sequence of tt_init / clear_tt / store_tt_entry calls,   *)
(* get_tt_entry(pos) reports a hit if and only if an entry was stored into *)
(* slot hash(pos) mod capacity since the table was last initialised or     *)
(* cleared and the entry stored there last has the hash of pos, and then   *)
(* it returns that entry unchanged; a freshly cleared table misses for     *)
(* every position.  The code violates it.                                  *)
(***************************************************************************)
C11_ProbeContract ==
  \A k \in 1..Len(tt_log.probe) :
    LET p == tt_log.probe[k]
        last == tt_log.stored[hash_pos(p.pos) % TT_CAPACITY]
    IN  /\ p.hit <=> (last # << >> /\ last[1].hash = hash_pos(p.pos))
        /\ p.hit => p.data = last[1]

(***************************************************************************)
(* score_to_ttscore and ttscore_to_score by themselves: a score and a ply  *)
(* are given, the score is adjusted for the table and adjusted back.       *)
(***************************************************************************)
\* the scores tried: both mate windows with their borders, and around 0
ScoreArgs ==
  ((-INF)..(-INF + MAX_PLY + 1)) \cup ((-2)..2) \cup ((INF - MAX_PLY - 1)..INF)

ScoreInit ==
  /\ SearchIdle
  /\ ComponentsIdle
  /\ call \in [fn : {"score"}, stage : {"given"}, score : ScoreArgs, ply : 0..MAX_PLY,
               ttscore : {0}, back : {0}]

ScoreToTT ==
  /\ call.stage = "given"
  /\ call' = [call EXCEPT !.stage = "stored",
                          !.ttscore = score_to_ttscore(call.score, call.ply)]
  /\ UNCHANGED <<tt, tt_log, position, pos_log, uci, search_vars>>

TTToScore ==
  /\ call.stage = "stored"
  /\ call' = [call EXCEPT !.stage = "probed",
                          !.back = ttscore_to_score(call.ttscore, call.ply)]
  /\ UNCHANGED <<tt, tt_log, position, pos_log, uci, search_vars>>

ScoreNext == ScoreToTT \/ TTToScore

ScoreSpec == ScoreInit /\ [][ScoreNext]_vars

(***************************************************************************)
(* C12: ttscore_to_score is the inverse of score_to_ttscore: for every     *)
(* score s in -INF..INF and every ply p in 0..MAX_PLY the score adjusted   *)
(* for the table and adjusted back is s again, and a score outside the     *)
(* mate window (|s| < INF - MAX_PLY) is left unchanged by both functions.  *)
(* The code violates it.                                                   *)
(***************************************************************************)
C12_RoundTrip ==
  call.stage = "probed" =>
    /\ call.back = call.score
    /\ Abs(call.score) < INF - MAX_PLY =>
         /\ call.ttscore = call.score
         /\ ttscore_to_score(call.score, call.ply) = call.score

(***************************************************************************)
(* place_piece and remove_piece called in any order on an empty board.     *)
(***************************************************************************)
remove_piece(p, sq) ==
  LET piece == p.board[sq]
  IN  [p EXCEPT !.color_bb[get_piece_color(piece)] = ClearBit(@, sq),
                !.type_bb[get_piece_type(piece)] = ClearBit(@, sq),
                !.board[sq] = PIECE_NONE]

\* a place_piece that overwrites whatever stands on the square
place_piece_over(p, sq, piece) ==
  [p EXCEPT !.color_bb[get_piece_color(piece)] = SetBit(@, sq),
            !.type_bb[get_piece_type(piece)] = SetBit(@, sq),
            !.board[sq] = piece]

place_piece(p, sq, piece) ==
  LET q == IF p.board[sq] # PIECE_NONE THEN remove_piece(p, sq) ELSE p
  IN  [q EXCEPT !.color_bb[get_piece_color(piece)] = SetBit(@, sq),
                !.type_bb[get_piece_type(piece)] = SetBit(@, sq),
                !.board[sq] = piece]

PlacePiece ==
  /\ \E sq \in Squares, piece \in Pieces :
       /\ position' = place_piece(position, sq, piece)
       /\ pos_log' = [pos_log EXCEPT !.op = "place", !.old = position.board[sq],
                                     !.piece = piece]
  /\ UNCHANGED <<tt, tt_log, call, uci, search_vars>>

RemovePiece ==
  /\ \E sq \in Squares :
       /\ position.board[sq] # PIECE_NONE
       /\ position' = remove_piece(position, sq)
       /\ pos_log' = [pos_log EXCEPT !.op = "remove", !.old = position.board[sq],
                                     !.piece = PIECE_NONE]
  /\ UNCHANGED <<tt, tt_log, call, uci, search_vars>>

BoardInit == SearchIdle /\ OthersIdle

BoardNext == PlacePiece \/ RemovePiece

BoardSpec == BoardInit /\ [][BoardNext]_vars

IrrFrames ==
  {IrrFrame(r, c, PIECE_NONE) : r \in {0, 15}, c \in {0, 1}} \cup {IrrFrame(15, 0, 0)}

\* a push that never enlarges the array
start_new_irreversible_state_fixed(p) ==
  LET idx == p.irr_state_idx + 1
  IN  [p EXCEPT !.irr_state_idx = idx,
                !.irr_states = [k \in DOMAIN @ |-> IF k = idx THEN @[idx - 1] ELSE @[k]]]

start_new_irreversible_state(p) ==
  LET idx == p.irr_state_idx + 1
      cap == IF idx = p.irr_state_cap THEN p.irr_state_cap + IRR_STATE_STEP
             ELSE p.irr_state_cap
      \* realloc keeps the frames and adds unwritten ones
      grown == [k \in 0..(cap - 1) |->
                  IF k < p.irr_state_cap THEN p.irr_states[k] ELSE JunkFrame]
  IN  [p EXCEPT !.irr_state_idx = idx,
                !.irr_state_cap = cap,
                !.irr_states = [grown EXCEPT ![idx] = grown[idx - 1]]]

backtrack_irreversible_state(p) == [p EXCEPT !.irr_state_idx = @ - 1]

StartNewIrreversibleState ==
  /\ position.irr_state_idx < MaxIrrPushes
  /\ position' = start_new_irreversible_state(position)
  /\ pos_log' = [pos_log EXCEPT
                   !.op = "push",
                   !.shadow = Append(@, position.irr_states[position.irr_state_idx])]
  /\ UNCHANGED <<tt, tt_log, call, uci, search_vars>>

\* never more pops than pushes
BacktrackIrreversibleState ==
  /\ position.irr_state_idx > 0
  /\ position' = backtrack_irreversible_state(position)
  /\ pos_log' = [pos_log EXCEPT
                   !.op = "pop",
                   !.expect = <<pos_log.shadow[Len(pos_log.shadow)]>>,
                   !.shadow = SubSeq(@, 1, Len(@) - 1)]
  /\ UNCHANGED <<tt, tt_log, call, uci, search_vars>>

ChangeTopFrame ==
  /\ \E f \in IrrFrames :
       /\ f # position.irr_states[position.irr_state_idx]
       /\ position' = [position EXCEPT !.irr_states[position.irr_state_idx] = f]
  /\ pos_log' = [pos_log EXCEPT !.op = "set"]
  /\ UNCHANGED <<tt, tt_log, call, uci, search_vars>>

IrrInit == SearchIdle /\ OthersIdle

IrrNext == StartNewIrreversibleState \/ BacktrackIrreversibleState \/ ChangeTopFrame

IrrSpec == IrrInit /\ [][IrrNext]_vars

(***************************************************************************)
(* C14: start_new_irreversible_state makes the new top frame equal to the  *)
(* previous top; whatever is then changed in the top frame,                *)
(* backtrack_irreversible_state restores exactly the values the fields had *)
(* before the push; and after any pushes and pops, never more pops than    *)
(* pushes, irr_state_idx < irr_state_cap and the frames below the top are  *)
(* as they were when the frame above them was pushed.                      *)
(***************************************************************************)
C14_IrrStack ==
  LET idx == position.irr_state_idx
  IN  /\ idx < position.irr_state_cap
      /\ idx \in DOMAIN position.irr_states
      /\ Len(pos_log.shadow) = idx
      /\ \A k \in 0..(idx - 1) : position.irr_states[k] = pos_log.shadow[k + 1]
      /\ pos_log.op = "push" => position.irr_states[idx] = position.irr_states[idx - 1]
      /\ pos_log.op = "pop" => position.irr_states[idx] = pos_log.expect[1]

\* the array was enlarged, the top frame changed at every level, and a pop
\* brought back a frame that differs from the one popped
C14_Witness ==
  /\ pos_log.op = "pop"
  /\ position.irr_state_cap > IRR_STATE_STEP
  /\ position.irr_state_idx >= IRR_STATE_STEP - 1
  /\ position.irr_states[position.irr_state_idx] #
       position.irr_states[position.irr_state_idx + 1]
  /\ position.irr_states[position.irr_state_idx] # IrrFrame(0, 0, PIECE_NONE)

(***************************************************************************)
(* hash_pos, lines 106-116: the index of the castling key.  has[c] says    *)
(* which castling rights colour c holds (0 white, 1 black).                *)
(***************************************************************************)
\* the loop over the colours: every turn assigns rights anew
RECURSIVE castling_rights_loop(_, _, _)
castling_rights_loop(has, color, rights) ==
  IF color > 1 THEN rights
  ELSE LET both == (IF has[color].king THEN 2 ELSE 0) + (IF has[color].queen THEN 1 ELSE 0)
       IN  castling_rights_loop(has, color + 1, (both * (4 ^ color)) % U8_RANGE)

castling_key_index(has) == castling_rights_loop(has, 0, 0)

CastlingRights == [0..1 -> [king : BOOLEAN, queen : BOOLEAN]]

\* two positions that are alike but for their castling rights a and b
CastlingInit ==
  /\ SearchIdle
  /\ ComponentsIdle
  /\ call \in [fn : {"hash_pos"}, stage : {"given"}, a : CastlingRights,
               b : CastlingRights, key_a : {0}, key_b : {0}]

HashCastling ==
  /\ call.stage = "given"
  /\ call' = [call EXCEPT !.stage = "hashed",
                          !.key_a = castling_key_index(call.a),
                          !.key_b = castling_key_index(call.b)]
  /\ UNCHANGED <<tt, tt_log, position, pos_log, uci, search_vars>>

CastlingSpec == CastlingInit /\ [][HashCastling]_vars

(***************************************************************************)
(* C15: hash_pos selects the castling key by the complete set of castling  *)
(* rights of both colours: two positions that differ in a castling right   *)
(* of either colour select different castling keys, so each of the 16      *)
(* combinations of rights has a key of its own.  The code violates it.     *)
(***************************************************************************)
C15_CastlingKey ==
  (call.stage = "hashed" /\ call.a # call.b) => call.key_a # call.key_b

(***************************************************************************)
(* Move generation (src/src/movegen.c), pawn moves.  The board keeps the   *)
(* eight ranks and NumFiles files; a square is rank * NumFiles + file and  *)
(* a bitboard is the set of its squares.  A position holds one pawn of the *)
(* side to move, at most one pawn of the other side and the en passant     *)
(* square; the other piece bitboards are empty and no side has a castling  *)
(* right.  A move is its origin, its target and its move type.             *)
(***************************************************************************)
BoardSquares == 0..(NumFiles * NumRanks - 1)

NoSquare == NumFiles * NumRanks

get_rank(sq) == sq \div NumFiles

get_file(sq) == sq % NumFiles

PromotionTypes ==
  {"MOVE_KNIGHT_PROMOTION", "MOVE_BISHOP_PROMOTION",
   "MOVE_ROOK_PROMOTION", "MOVE_QUEEN_PROMOTION"}

PromotionCaptureTypes ==
  {"MOVE_KNIGHT_PROMOTION_CAPTURE", "MOVE_BISHOP_PROMOTION_CAPTURE",
   "MOVE_ROOK_PROMOTION_CAPTURE", "MOVE_QUEEN_PROMOTION_CAPTURE"}

MoveTypes ==
  {"MOVE_OTHER", "MOVE_DOUBLE_PAWN_PUSH", "MOVE_KING_CASTLE",
   "MOVE_QUEEN_CASTLE", "MOVE_CAPTURE", "MOVE_EP_CAPTURE"}
    \cup PromotionTypes \cup PromotionCaptureTypes

\* every value a Move can take on this board
AllMoves == [from : BoardSquares, to : BoardSquares, type : MoveTypes]

create_move(from, to, type) == [from |-> from, to |-> to, type |-> type]

type_is_capture(t) ==
  t \in {"MOVE_CAPTURE", "MOVE_EP_CAPTURE"} \cup PromotionCaptureTypes

type_is_promotion(t) == t \in PromotionTypes \cup PromotionCaptureTypes

\* colours: 0 is white, 1 is black
pawn_bitboard(pos, color) == IF color = pos.side THEN {pos.own} ELSE pos.enemy

color_bitboard(pos, color) == pawn_bitboard(pos, color)

has_piece_at(pos, sq) == sq \in color_bitboard(pos, 0) \cup color_bitboard(pos, 1)

shift_bb_north(bb) == {sq + NumFiles : sq \in {s \in bb : get_rank(s) < NumRanks - 1}}

shift_bb_south(bb) == {sq - NumFiles : sq \in {s \in bb : get_rank(s) > 0}}

shift_bb_east(bb) == {sq + 1 : sq \in {s \in bb : get_file(s) < NumFiles - 1}}

shift_bb_west(bb) == {sq - 1 : sq \in {s \in bb : get_file(s) > 0}}

get_pawn_attacks(sq, c) ==
  IF c = 0
    THEN shift_bb_east(shift_bb_north({sq})) \cup shift_bb_west(shift_bb_north({sq}))
    ELSE shift_bb_east(shift_bb_south({sq})) \cup shift_bb_west(shift_bb_south({sq}))

get_single_push(sq, occ, c) ==
  IF c = 0 THEN shift_bb_north({sq}) \ occ ELSE shift_bb_south({sq}) \ occ

get_double_push(sq, occ, c) ==
  IF c = 0
    THEN {t \in shift_bb_north(get_single_push(sq, occ, c)) \ occ : get_rank(t) = 3}
    ELSE {t \in shift_bb_south(get_single_push(sq, occ, c)) \ occ : get_rank(t) = 4}

LastRank(color) == IF color = 0 THEN NumRanks - 1 ELSE 0

square_is_attacked_by_pawn(sq, by_side, pos) ==
  get_pawn_attacks(sq, 1 - by_side) \cap pawn_bitboard(pos, by_side) # {}

\* the moves the generators add to the list, as a set: the claim is about
\* which moves are in the list and not about their order
gen_pawn_attacks(from, enemy_pieces, color) ==
  UNION {IF get_rank(to) = LastRank(color)
           THEN {create_move(from, to, t) : t \in PromotionCaptureTypes}
           ELSE {create_move(from, to, "MOVE_CAPTURE")}
         : to \in get_pawn_attacks(from, color) \cap enemy_pieces}

gen_double_pushes(from, occ, color) ==
  {create_move(from, to, "MOVE_DOUBLE_PAWN_PUSH") : to \in get_double_push(from, occ, color)}

gen_pushes(from, occ, color) ==
  UNION {IF get_rank(to) = LastRank(color)
           THEN {create_move(from, to, t) : t \in PromotionTypes}
           ELSE {create_move(from, to, "MOVE_OTHER")}
         : to \in get_single_push(from, occ, color)}

gen_pawn_moves(type, pos) ==
  LET color == pos.side
      enemy_pieces == color_bitboard(pos, 1 - color)
      occ == enemy_pieces \cup color_bitboard(pos, color)
      bb == pawn_bitboard(pos, color)
      en_passant ==
        IF /\ pos.ep # NoSquare
           /\ type = "MOVE_GEN_TYPE_CAPTURE"
           /\ square_is_attacked_by_pawn(pos.ep, color, pos)
          THEN {create_move(from, pos.ep, "MOVE_EP_CAPTURE")
                : from \in get_pawn_attacks(pos.ep, 1 - color) \cap bb}
          ELSE {}
  IN  en_passant \cup
      UNION {IF type = "MOVE_GEN_TYPE_CAPTURE"
               THEN gen_pawn_attacks(from, enemy_pieces, color)
               ELSE gen_pushes(from, occ, color) \cup gen_double_pushes(from, occ, color)
             : from \in bb}

\* no side has a castling right: both castling generators add nothing
gen_king_castling(pos) == {}

gen_queen_castling(pos) == {}

\* get_pseudo_legal_moves of movegen.c on the positions of this board: the
\* bitboards of the other piece types are empty
movegen_get_pseudo_legal_moves(type, pos) == gen_pawn_moves(type, pos)

\* the branch of move_is_pseudo_legal for a pawn at the origin
pawn_move_is_pseudo_legal(move, pos) ==
  LET side == pos.side
      from == move.from
      to == move.to
      occ == color_bitboard(pos, 0) \cup color_bitboard(pos, 1)
      enemy_bb == color_bitboard(pos, 1 - side)
      rank_diff == get_rank(to) - get_rank(from)
  IN  IF type_is_promotion(move.type) # (get_rank(to) = LastRank(side)) THEN FALSE
      ELSE IF rank_diff \in {-2, 2} /\ move.type # "MOVE_DOUBLE_PAWN_PUSH" THEN FALSE
      ELSE IF pos.ep # NoSquare /\ to = pos.ep /\ move.type # "MOVE_EP_CAPTURE" THEN FALSE
      ELSE IF /\ to \notin get_single_push(from, occ, side)
              /\ to \notin get_double_push(from, occ, side)
              /\ to \notin get_pawn_attacks(from, side) \cap enemy_bb
             THEN FALSE
      ELSE IF to \in get_double_push(from, occ, side)
             THEN get_rank(from) = (IF side = 0 THEN 1 ELSE NumRanks - 2)
      ELSE TRUE

move_is_pseudo_legal(move, pos) ==
  IF move.type = "MOVE_EP_CAPTURE"
    THEN move \in gen_pawn_moves("MOVE_GEN_TYPE_CAPTURE", pos)
  ELSE IF move.type = "MOVE_KING_CASTLE" THEN move \in gen_king_castling(pos)
  ELSE IF move.type = "MOVE_QUEEN_CASTLE" THEN move \in gen_queen_castling(pos)
  ELSE IF ~has_piece_at(pos, move.from) THEN FALSE
  ELSE IF move.from \notin color_bitboard(pos, pos.side) THEN FALSE
  ELSE IF move.to \in color_bitboard(pos, pos.side) THEN FALSE
  ELSE IF type_is_capture(move.type) # has_piece_at(pos, move.to) THEN FALSE
  ELSE pawn_move_is_pseudo_legal(move, pos)

PawnSquares == {sq \in BoardSquares : get_rank(sq) \in 1..(NumRanks - 2)}

\* the en passant square is NoSquare, or the square a pawn of the other side
\* has just passed over with a double push
EnPassantFits(pos) ==
  \/ pos.ep = NoSquare
  \/ LET back == IF pos.side = 0 THEN NumFiles ELSE 0 - NumFiles
     IN  /\ get_rank(pos.ep) = (IF pos.side = 0 THEN 5 ELSE 2)
         /\ pos.enemy = {pos.ep - back}
         /\ pos.own \notin {pos.ep, pos.ep + back}

MovegenPositions ==
  {pos \in [side : 0..1, own : PawnSquares,
            enemy : {{}} \cup {{sq} : sq \in PawnSquares},
            ep : BoardSquares \cup {NoSquare}]
   : pos.own \notin pos.enemy /\ EnPassantFits(pos)}

MovegenInit ==
  /\ SearchIdle
  /\ ComponentsIdle
  /\ call \in [fn : {"move_is_pseudo_legal"}, stage : {"given"},
               pos : MovegenPositions, accepted : {{}}, generated : {{}}]

\* move_is_pseudo_legal is called with every move value, and the two kinds of
\* generation are run, on the same position
TestEveryMove ==
  /\ call.stage = "given"
  /\ call' = [call EXCEPT
       !.stage = "tested",
       !.accepted = {m \in AllMoves : move_is_pseudo_legal(m, call.pos)},
       !.generated =
         movegen_get_pseudo_legal_moves("MOVE_GEN_TYPE_CAPTURE", call.pos)
           \cup movegen_get_pseudo_legal_moves("MOVE_GEN_TYPE_QUIET", call.pos)]
  /\ UNCHANGED <<tt, tt_log, position, pos_log, uci, search_vars>>

MovegenSpec == MovegenInit /\ [][TestEveryMove]_vars

(***************************************************************************)
(* C16: for every position and every move value (any origin, target and    *)
(* move type), move_is_pseudo_legal returns true if and only if the move   *)
(* is one of the moves get_pseudo_legal_moves generates for the position,  *)
(* capture and quiet generation together.  The code violates it.           *)
(***************************************************************************)
C16_PseudoLegalIffGenerated ==
  call.stage = "tested" => call.accepted = call.generated

(***************************************************************************)
(* The front-end and its search thread (src/src/uci.c).  uci_interpret     *)
(* handles one command at a time; pthread_join blocks the front-end until  *)
(* the thread it names has terminated, so go, stop and quit wait at their  *)
(* join.  A search thread terminates when its search is over; it holds a   *)
(* pointer to stop_search (init_search_arg) and may set it on its way out. *)
(***************************************************************************)
LiveThreads == {id \in 1..MaxThreads : uci.threads[id] \in {"running", "terminated"}}

CreatedThreads == {id \in 1..MaxThreads : uci.threads[id] # "none"}

\* uci_interpret, lines 193-197: while a search runs only stop and quit are
\* listened to
Ignored(cmd) ==
  /\ uci.search_thread_created
  /\ ~uci.stop_search
  /\ cmd \notin {"stop", "quit"}

GoMustJoinNever(u) == FALSE

\* go, line 492
GoMustJoin(u) == u.search_thread_created

\* a command that creates and joins no thread: uci, isready, setoption,
\* ucinewgame, position, an unknown word, or a go that returns while it
\* parses its arguments (lines 458, 463)
UciOther ==
  /\ uci.pc = "read"
  /\ uci' = [uci EXCEPT !.last = IF Ignored("other") THEN "ignored" ELSE "other"]
  /\ UNCHANGED <<tt, tt_log, call, position, pos_log, search_vars>>

\* go up to its pthread_join, lines 492-498
UciGo ==
  /\ uci.pc = "read"
  /\ IF Ignored("go")
       THEN uci' = [uci EXCEPT !.last = "ignored"]
       ELSE IF GoMustJoin(uci)
              THEN uci' = [uci EXCEPT !.search_thread_created = FALSE,
                                      !.pc = "go_join"]
              ELSE uci' = [uci EXCEPT !.pc = "go_create"]
  /\ UNCHANGED <<tt, tt_log, call, position, pos_log, search_vars>>

\* pthread_join returns: the thread named by search_thread has terminated
Join(next_pc, cmd) ==
  /\ uci.threads[uci.search_thread] = "terminated"
  /\ uci' = [uci EXCEPT !.threads[uci.search_thread] = "joined",
                        !.pc = next_pc,
                        !.last = IF cmd = "go" THEN @ ELSE cmd]
  /\ UNCHANGED <<tt, tt_log, call, position, pos_log, search_vars>>

UciGoJoin ==
  /\ uci.pc = "go_join"
  /\ Join("go_create", "go")

\* go, lines 500-507: pthread_create succeeds or fails
UciGoCreate ==
  /\ uci.pc = "go_create"
  /\ \/ /\ CreatedThreads # 1..MaxThreads
        /\ LET id == CHOOSE i \in 1..MaxThreads :
                       uci.threads[i] = "none" /\ \A j \in 1..(i - 1) : uci.threads[j] # "none"
           IN  uci' = [uci EXCEPT !.stop_search = FALSE,
                                  !.search_thread = id,
                                  !.threads[id] = "running",
                                  !.search_thread_created = TRUE,
                                  !.pc = "read",
                                  !.last = "go"]
     \/ uci' = [uci EXCEPT !.stop_search = TRUE,
                           !.search_thread_created = FALSE,
                           !.pc = "read",
                           !.last = "go"]
  /\ UNCHANGED <<tt, tt_log, call, position, pos_log, search_vars>>

\* stop, lines 510-520, up to its pthread_join
UciStop ==
  /\ uci.pc = "read"
  /\ IF uci.search_thread_created
       THEN uci' = [uci EXCEPT !.search_thread_created = FALSE,
                               !.stop_search = TRUE,
                               !.pc = "stop_join"]
       ELSE uci' = [uci EXCEPT !.last = "stop"]
  /\ UNCHANGED <<tt, tt_log, call, position, pos_log, search_vars>>

\* quit, lines 522-531, up to its pthread_join; uci_interpret returns false
\* and uci_loop ends
UciQuit ==
  /\ uci.pc = "read"
  /\ IF uci.search_thread_created
       THEN uci' = [uci EXCEPT !.search_thread_created = FALSE,
                               !.stop_search = TRUE,
                               !.pc = "quit_join"]
       ELSE uci' = [uci EXCEPT !.pc = "exited", !.last = "quit"]
  /\ UNCHANGED <<tt, tt_log, call, position, pos_log, search_vars>>

UciStopJoin ==
  /\ uci.pc = "stop_join"
  /\ Join("read", "stop")

UciQuitJoin ==
  /\ uci.pc = "quit_join"
  /\ Join("exited", "quit")

\* uci_loop, lines 119-120: at the end of the input the loop ends and quit()
\* is not called
UciEof ==
  /\ uci.pc = "read"
  /\ uci' = [uci EXCEPT !.pc = "exited", !.last = "eof"]
  /\ UNCHANGED <<tt, tt_log, call, position, pos_log, search_vars>>

\* the search of a thread is over: by itself, or because it saw stop_search
SearchThreadEnds ==
  /\ \E id \in 1..MaxThreads, sets_stop \in BOOLEAN :
       /\ uci.threads[id] = "running"
       /\ uci' = [uci EXCEPT !.threads[id] = "terminated",
                             !.stop_search = @ \/ sets_stop]
  /\ UNCHANGED <<tt, tt_log, call, position, pos_log, search_vars>>

UciInit ==
  /\ SearchIdle
  /\ ComponentsIdle
  /\ call = NoCall

UciNext ==
  \/ UciOther
  \/ UciGo
  \/ UciGoJoin
  \/ UciGoCreate
  \/ UciStop
  \/ UciStopJoin
  \/ UciQuit
  \/ UciQuitJoin
  \/ UciEof
  \/ SearchThreadEnds

UciSpec == UciInit /\ [][UciNext]_vars

(***************************************************************************)
(* C17: across any sequence of commands at most one search thread exists   *)
(* that has been created and not yet joined: go creates a thread only      *)
(* after the thread created before has been joined, and when stop or quit  *)
(* has returned the thread it signalled has been joined.                   *)
(***************************************************************************)
C17_OneSearchThread ==
  /\ Cardinality(LiveThreads) <= 1
  /\ LiveThreads \subseteq {uci.search_thread}
  /\ (uci.pc \in {"read", "exited"} /\ uci.last \in {"stop", "quit"}) => LiveThreads = {}

\* a second go has joined the thread of the first and created its own
C17_Witness ==
  /\ uci.last = "go"
  /\ uci.pc = "read"
  /\ \E id \in 1..MaxThreads : uci.threads[id] = "joined"
  /\ \E id \in 1..MaxThreads : uci.threads[id] = "running"

(***************************************************************************)
(* create_pos on the last two fields of a FEN string (src/pos.c).  A field *)
(* is the sequence of its decimal digits; the four fields before them are  *)
(* well formed.  strtoul reads the digits as a number (no field of         *)
(* MaxDigits digits reaches ULONG_MAX, so errno is never ERANGE).          *)
(***************************************************************************)
FenDigits == {0, 2, 5, 6}

FenNumbers == UNION {[1..n -> FenDigits] : n \in 1..MaxDigits}

RECURSIVE strtoul(_)
strtoul(str) ==
  IF str = << >> THEN 0
  ELSE 10 * strtoul(SubSeq(str, 1, Len(str) - 1)) + str[Len(str)]

\* the position as create_pos leaves it before parse_fen, lines 629-631
FreshCounters == [halfmove_clock |-> 0, fullmove_counter |-> 0]

\* the value is stored in a u8
parse_halfmove_clock(pos, str) ==
  LET clock == strtoul(str)
  IN  IF clock > SHRT_MAX THEN [ret |-> 0, pos |-> pos]
      ELSE [ret |-> Len(str),
            pos |-> [pos EXCEPT !.halfmove_clock = clock % U8_RANGE]]

\* the value is stored in a short
parse_fullmove_counter(pos, str) ==
  LET counter == strtoul(str)
  IN  IF counter > SHRT_MAX THEN [ret |-> 0, pos |-> pos]
      ELSE [ret |-> Len(str), pos |-> [pos EXCEPT !.fullmove_counter = counter]]

\* the last two steps of parse_fen, then the test of create_pos on the
\* number of characters read: accepted is FALSE where create_pos returns NULL
create_pos(halfmove, fullmove) ==
  LET first == parse_halfmove_clock(FreshCounters, halfmove)
      second == parse_fullmove_counter(first.pos, fullmove)
  IN  IF first.ret = 0 THEN [accepted |-> FALSE, pos |-> first.pos]
      ELSE IF second.ret = 0 THEN [accepted |-> FALSE, pos |-> second.pos]
      ELSE [accepted |-> TRUE, pos |-> second.pos]

FenGiven(halfmove, fullmove) ==
  [fn |-> "create_pos", stage |-> "given", halfmove |-> halfmove,
   fullmove |-> fullmove, accepted |-> FALSE, pos |-> FreshCounters]

\* FEN strings that vary in one of the two fields
FenInit ==
  /\ SearchIdle
  /\ ComponentsIdle
  /\ call \in {FenGiven(halfmove, <<2>>) : halfmove \in FenNumbers}
               \cup {FenGiven(<<0>>, fullmove) : fullmove \in FenNumbers}

CreatePos ==
  /\ call.stage = "given"
  /\ LET made == create_pos(call.halfmove, call.fullmove)
     IN  call' = [call EXCEPT !.stage = "created",
                              !.accepted = made.accepted,
                              !.pos = made.pos]
  /\ UNCHANGED <<tt, tt_log, position, pos_log, uci, search_vars>>

FenSpec == FenInit /\ [][CreatePos]_vars

(***************************************************************************)
(* C18: for every FEN string that create_pos accepts, the halfmove clock   *)
(* and the fullmove counter of the position equal the numbers written in   *)
(* the fifth and sixth fields; a clock value the position cannot hold is   *)
(* rejected.  The code violates it.                                        *)
(***************************************************************************)
C18_CountersAsWritten ==
  (call.stage = "created" /\ call.accepted) =>
    /\ call.pos.halfmove_clock = strtoul(call.halfmove)
    /\ call.pos.fullmove_counter = strtoul(call.fullmove)

(***************************************************************************)
(* The transposition table inside a search.  init_tt_entry narrows the     *)
(* depth of the storing node to the u8 field; the depths of the model lie  *)
(* between -MAX_PLY and MAX_DEPTH, so the field tells the depth the node   *)
(* was searched with: a value above MAX_DEPTH is a negative depth of the   *)
(* quiescence search.                                                      *)
(***************************************************************************)
SearchedDepth(e) == IF e.depth > MAX_DEPTH THEN e.depth - U8_RANGE ELSE e.depth

\* the step of negamax or qsearch that returns the score of the table entry
\* (search.c lines 414-422 and 551-560)
TTEarlyReturn ==
  /\ pc = "call"
  /\ Top.pc = "enter"
  /\ ~repeated(Top.pos, stack, arg.pos)
  /\ tt_probe(tt, Top.pos, Top.depth, Top.alpha, Top.beta, data.ply).cut
  /\ data'.nodes = data.nodes + 1
  /\ stack' = SetTop([Top EXCEPT !.pc = "ret",
                                 !.ret = tt_probe(tt, Top.pos, Top.depth, Top.alpha,
                                                  Top.beta, data.ply).score])

(***************************************************************************)
(* C19: a table entry causes an early return at a negamax or qsearch node  *)
(* only if the depth with which the storing node was searched (depth 0 and *)
(* the negative depths of the quiescence search included) is greater than  *)
(* or equal to the remaining depth of the probing node.  The code violates *)
(* it.                                                                     *)
(***************************************************************************)
C19_StoredDepthSuffices ==
  [][TTEarlyReturn =>
       SearchedDepth(get_tt_entry(tt, Top.pos).data) >= Top.depth]_vars

(***************************************************************************)
(* Killer moves inside a search.  search() clears data.killers when an     *)
(* iteration starts (line 758); after that only the beta cutoff of negamax *)
(* (lines 657-662) writes them.                                            *)
(***************************************************************************)
KillersDistinct ==
  \A d \in 0..MAX_DEPTH : \A i, j \in 1..MAX_KILLER_MOVES :
    (i # j /\ data.killers[d][i] # 0) => data.killers[d][i] # data.killers[d][j]

\* the step in which move m, tried at a negamax node of remaining depth d,
\* raises alpha to beta or above
BetaCutoff(d, m) ==
  /\ pc = "call"
  /\ Len(stack) > 1
  /\ Top.pc = "ret"
  /\ Top.via = "move"
  /\ Top.move = m
  /\ Parent.fn = "negamax"
  /\ Parent.depth = d
  /\ Scored(Parent, -Top.ret, m).alpha >= Parent.beta

\* killers[d] changes only by a cutoff at depth d, whose move goes to slot 0
\* while the others shift by one slot, or by the clearing of all slots
KillersInserted ==
  \A d \in 0..MAX_DEPTH :
    data'.killers[d] # data.killers[d] =>
      \/ data'.killers = NoData.killers
      \/ \E m \in Moves \ {0} :
           /\ BetaCutoff(d, m)
           /\ ~is_killer(m, data.killers[d])
           /\ data'.killers[d][1] = m
           /\ \A k \in 2..MAX_KILLER_MOVES : data'.killers[d][k] = data.killers[d][k - 1]

KillerSlots == {data.killers[d][k] : d \in 0..MAX_DEPTH, k \in 1..MAX_KILLER_MOVES} \ {0}

LineMoves == {"N", "P", "X"}

LineStart == [knight |-> <<0, 0>>, irr |-> 0, side |-> 1]

line_do_move(p, m) ==
  IF m = "N"
    THEN [p EXCEPT !.knight[p.side] = 1 - @, !.side = 3 - @]
    ELSE [p EXCEPT !.irr = @ + 1, !.side = 3 - @]

undo_move(p, m) ==
  IF m = "N"
    THEN [p EXCEPT !.knight[3 - p.side] = 1 - @, !.side = 3 - @]
    ELSE [p EXCEPT !.irr = @ - 1, !.side = 3 - @]

RECURSIVE PlayLine(_, _)
PlayLine(p, ms) ==
  IF ms = << >> THEN p ELSE PlayLine(line_do_move(p, Head(ms)), Tail(ms))

\* the positions compared are equal when all their parts are
pos_equal(p, q) == p = q

\* the number a position stands for in hash_pos
LineCode(p) == 1 + (p.knight[1] + 2 * p.knight[2] + 4 * (p.side - 1) + 8 * p.irr)

pos_cnt_key(p) == hash_pos(LineCode(p)) % POS_CNT_TABLE_LEN

inc_pos_cnt(cnt, p) == [cnt EXCEPT ![pos_cnt_key(p)] = @ + 1]

\* the loop of init_pos_cnt_table, lines 107-110, from i down to 1
RECURSIVE count_history(_, _, _, _)
count_history(cnt, prev_pos, moves, i) ==
  IF i = 0 THEN cnt
  ELSE LET before == undo_move(prev_pos, moves[i])
       IN  count_history(inc_pos_cnt(cnt, before), before, moves, i - 1)

\* with no move before the search the function returns before its memset
\* and the counters keep what the stack held
init_pos_cnt_table(cnt, root_pos, moves) ==
  IF Len(moves) = 0 THEN cnt
  ELSE count_history([k \in 0..(POS_CNT_TABLE_LEN - 1) |-> 0], root_pos, moves, Len(moves))

\* get_ply_move: a negative ply indexes moves[], any other ply move_made,
\* and move_made[0] is 0
get_ply_move_of(ply, move_made, moves) ==
  IF ply < 0
    THEN IF ply + Len(moves) >= 0 /\ ply + Len(moves) < Len(moves)
           THEN moves[ply + Len(moves) + 1]
           ELSE "0"
    ELSE IF ply >= 1 /\ ply <= Len(move_made) THEN move_made[ply] ELSE "0"

\* the loop of repeated, lines 158-183
RECURSIVE repeated_walk(_, _, _, _, _)
repeated_walk(cur, prev_pos, ply, move_made, moves) ==
  LET first == get_ply_move_of(ply, move_made, moves)
      second == get_ply_move_of(ply - 1, move_made, moves)
      back == undo_move(undo_move(prev_pos, first), second)
  IN  IF first = "0" THEN FALSE
      ELSE IF second = "0" THEN FALSE
      ELSE IF second # "N" THEN FALSE
      ELSE IF pos_equal(cur, back) THEN TRUE
      ELSE repeated_walk(cur, back, ply - 2, move_made, moves)

repeated_at(cnt, cur, move_made, moves) ==
  IF cnt[pos_cnt_key(cur)] <= 1 THEN FALSE
  ELSE repeated_walk(cur, cur, Len(move_made), move_made, moves)

LineSeqs(lo, hi) == UNION {[1..n -> LineMoves] : n \in lo..hi}

\* what the counters hold before search() has written them
StackJunk == {[k \in 0..(POS_CNT_TABLE_LEN - 1) |-> v] : v \in {-3, 0, 2}}

RepGiven(moves, line, junk) ==
  [fn |-> "repeated", stage |-> "given", moves |-> moves, line |-> line,
   root |-> PlayLine(LineStart, moves), pos |-> PlayLine(LineStart, moves),
   move_made |-> << >>, pos_cnt |-> junk, ret |-> FALSE]

RepInit ==
  /\ SearchIdle
  /\ ComponentsIdle
  /\ call \in {RepGiven(moves, line, junk) :
                 moves \in LineSeqs(0, MaxHistory), line \in LineSeqs(1, MaxLine),
                 junk \in StackJunk}

\* search(), lines 751-761: the table is initialised and the root counted
RepSearchStart ==
  /\ call.stage = "given"
  /\ call' = [call EXCEPT
       !.stage = "line",
       !.pos_cnt = inc_pos_cnt(init_pos_cnt_table(call.pos_cnt, call.root, call.moves),
                               call.root)]
  /\ UNCHANGED <<tt, tt_log, position, pos_log, uci, search_vars>>

\* a move of the line is made: do_move, ++ply, inc_pos_cnt, move_made[ply]
RepDoMove ==
  /\ call.stage = "line"
  /\ Len(call.move_made) < Len(call.line)
  /\ LET move == call.line[Len(call.move_made) + 1]
         next == line_do_move(call.pos, move)
     IN  call' = [call EXCEPT !.pos = next,
                              !.move_made = Append(@, move),
                              !.pos_cnt = inc_pos_cnt(@, next)]
  /\ UNCHANGED <<tt, tt_log, position, pos_log, uci, search_vars>>

\* the node at the end of the line asks repeated()
RepAsk ==
  /\ call.stage = "line"
  /\ Len(call.move_made) = Len(call.line)
  /\ call' = [call EXCEPT
       !.stage = "asked",
       !.ret = repeated_at(call.pos_cnt, call.pos, call.move_made, call.moves)]
  /\ UNCHANGED <<tt, tt_log, position, pos_log, uci, search_vars>>

RepNext == RepSearchStart \/ RepDoMove \/ RepAsk

RepSpec == RepInit /\ [][RepNext]_vars

\* the positions of the game before the search and of the line, oldest first
AllLineMoves == call.moves \o call.move_made

PositionAt(i) == PlayLine(LineStart, SubSeq(AllLineMoves, 1, i))

\* the position of the node occurred 2k plies earlier with only quiet moves
\* of pieces other than pawns in between
RepeatsEarlier(k) ==
  /\ 2 * k <= Len(AllLineMoves)
  /\ pos_equal(PositionAt(Len(AllLineMoves) - 2 * k), call.pos)
  /\ \A i \in (Len(AllLineMoves) - 2 * k + 1)..Len(AllLineMoves) : AllLineMoves[i] = "N"

(***************************************************************************)
(* C21: if the position at a search node equals a position that occurred   *)
(* an even number of plies earlier, in the current search line or in the   *)
(* game history passed in moves[], with only quiet, non-pawn, non-castling *)
(* moves played in between, then repeated() returns true (already on the   *)
(* first repeat).  The code violates it.                                   *)
(***************************************************************************)
C21_RepetitionFound ==
  (call.stage = "asked" /\ \E k \in 1..(MaxHistory + MaxLine) : RepeatsEarlier(k))
    => call.ret

(***************************************************************************)
(* C25: at the start of every root search every counter of pos_cnt is 0    *)
(* before the positions of the game history and the root are counted, also *)
(* when the list of prior moves is empty; hence at any node pos_cnt[key]   *)
(* is the number of positions of the game history and the current line     *)
(* that hash to key.  The code violates it.                                *)
(***************************************************************************)
C25_CountersExact ==
  call.stage \in {"line", "asked"} =>
    \A key \in 0..(POS_CNT_TABLE_LEN - 1) :
      call.pos_cnt[key] =
        Cardinality({i \in 0..Len(AllLineMoves) : pos_cnt_key(PositionAt(i)) = key})

(***************************************************************************)
(* The clock of a time-limited search (src/search.c, the first lines of    *)
(* negamax and of qsearch), with the poll interval scaled to PollInterval. *)
(* The nodes of a search are entered one after the other; what is kept of  *)
(* the tree is whether the node entered last is a qsearch node, which may  *)
(* call qsearch again for a capture, and whether negamax at depth 0 is     *)
(* about to call qsearch.  After stop_time every clock reading is late.    *)
(*   since_poll    nodes counted since the clock was last compared         *)
(*   since_expiry  nodes counted since stop_time passed                    *)
(***************************************************************************)
PollStart(limited_time) ==
  [fn |-> "negamax", nodes |-> 0, limited_time |-> limited_time, late |-> FALSE,
   running |-> TRUE, pending |-> "none", last |-> "none", since_poll |-> 0,
   since_expiry |-> 0]

Counted(c, was) ==
  [c EXCEPT !.nodes = @ + 1,
            !.since_poll = @ + 1,
            !.since_expiry = IF c.late THEN @ + 1 ELSE @,
            !.pending = "none",
            !.last = was]

\* negamax lines 524-547 with depth > 0: the clock is read when data->nodes
\* is a multiple of the interval
PollNegamax ==
  /\ call.fn = "negamax"
  /\ call.running
  /\ call.pending = "none"
  /\ call.nodes < MaxPollNodes
  /\ LET polls == call.nodes % PollInterval = 0 /\ call.limited_time
         c == IF polls THEN [call EXCEPT !.since_poll = 0] ELSE call
     IN  IF polls /\ call.late
         THEN call' = [c EXCEPT !.running = FALSE]
         ELSE call' = Counted(c, "negamax")
  /\ UNCHANGED <<tt, tt_log, position, pos_log, uci, search_vars>>

\* negamax with depth 0, lines 524-567: the node is counted, uncounted and
\* handed to qsearch
PollNegamaxLeaf ==
  /\ call.fn = "negamax"
  /\ call.running
  /\ call.pending = "none"
  /\ call.nodes < MaxPollNodes
  /\ LET polls == call.nodes % PollInterval = 0 /\ call.limited_time
         c == IF polls THEN [call EXCEPT !.since_poll = 0] ELSE call
     IN  IF polls /\ call.late
         THEN call' = [c EXCEPT !.running = FALSE]
         ELSE call' = [c EXCEPT !.pending = "qsearch"]
  /\ UNCHANGED <<tt, tt_log, position, pos_log, uci, search_vars>>

\* qsearch lines 398-408: called by negamax at depth 0, or by qsearch after
\* a capture; the clock is not read
PollQsearch ==
  /\ call.fn = "negamax"
  /\ call.running
  /\ call.pending = "qsearch" \/ call.last = "qsearch"
  /\ call.nodes < MaxPollNodes
  /\ call' = Counted(call, "qsearch")
  /\ UNCHANGED <<tt, tt_log, position, pos_log, uci, search_vars>>

\* the time of stop_time comes
ClockPasses ==
  /\ call.fn = "negamax"
  /\ call.limited_time
  /\ ~call.late
  /\ call' = [call EXCEPT !.late = TRUE]
  /\ UNCHANGED <<tt, tt_log, position, pos_log, uci, search_vars>>

PollInit ==
  /\ SearchIdle
  /\ ComponentsIdle
  /\ call \in {PollStart(limited_time) : limited_time \in BOOLEAN}

PollNext == PollNegamax \/ PollNegamaxLeaf \/ PollQsearch \/ ClockPasses

PollSpec == PollInit /\ [][PollNext]_vars

(***************************************************************************)
(* C22: in a time-limited search the clock is compared with stop_time at   *)
(* least once in every 8192 consecutively counted nodes (negamax and       *)
(* qsearch nodes together), so once stop_time has passed the running flag  *)
(* becomes false within at most 8192 further nodes.  The code violates it. *)
(***************************************************************************)
C22_ClockPolled ==
  (call.fn = "negamax" /\ call.limited_time) =>
    /\ call.since_poll <= PollInterval
    /\ call.running => call.since_expiry <= PollInterval

(***************************************************************************)
(* The game phase (src/pos.c, get_phase).  create_pos takes any placement  *)
(* of pieces on the board (parse_pieces tests the characters and the       *)
(* length of the ranks only); a position is given here by the number of    *)
(* its knights, bishops, rooks and queens of either colour, each with a    *)
(* square of its own next to the kings and eight pawns a side.             *)
(***************************************************************************)
PhaseTypes == {"pawn", "knight", "bishop", "rook", "queen"}
PhaseColors == {"white", "black"}
weights == [pawn |-> 0, knight |-> 1, bishop |-> 1, rook |-> 2, queen |-> 4]
neutral ==
  16 * weights.pawn + 4 * weights.knight + 4 * weights.bishop
    + 4 * weights.rook + 2 * weights.queen

\* the division of C truncates towards zero
c_div(a, b) == IF a >= 0 THEN a \div b ELSE -((-a) \div b)

\* the number of pieces of one kind and colour, popcnt of its bitboard
get_number_of_pieces(pos, pt, c) == pos[c][pt]

RECURSIVE phase_minus(_, _, _)
phase_minus(pos, phase, left) ==
  IF left = {} THEN phase
  ELSE LET x == CHOOSE y \in left : TRUE
       IN  phase_minus(pos, phase - get_number_of_pieces(pos, x[2], x[1])
                                      * weights[x[2]], left \ {x})

get_phase(pos) ==
  LET phase == phase_minus(pos, neutral, PhaseColors \X PhaseTypes)
  IN  c_div(256 * phase + (neutral \div 2), neutral)

PieceCounts == {0, 1, 2, MaxSame}
SideCounts(n, b, r, q) ==
  [pawn |-> 8, knight |-> n, bishop |-> b, rook |-> r, queen |-> q]
PhaseSides ==
  {SideCounts(n, b, r, q) : n \in PieceCounts, b \in PieceCounts,
                            r \in PieceCounts, q \in PieceCounts}
PhaseGiven(w, b) ==
  [fn |-> "get_phase", stage |-> "given", pos |-> [white |-> w, black |-> b],
   ret |-> 0]

PhaseInit ==
  /\ SearchIdle
  /\ ComponentsIdle
  /\ call \in {PhaseGiven(x[1], x[2]) : x \in PhaseSides \X PhaseSides}

GetPhase ==
  /\ call.fn = "get_phase"
  /\ call.stage = "given"
  /\ call' = [call EXCEPT !.stage = "returned", !.ret = get_phase(call.pos)]
  /\ UNCHANGED <<tt, tt_log, position, pos_log, uci, search_vars>>

PhaseSpec == PhaseInit /\ [][GetPhase]_vars

(***************************************************************************)
(* C23: get_phase returns a value in the range 0..256 for every position   *)
(* that create_pos accepts, including positions with more knights,         *)
(* bishops, rooks or queens than the standard starting material.  The code *)
(* violates it: with more than the starting material the result is below   *)
(* 0.                                                                      *)
(***************************************************************************)
C23_PhaseInRange ==
  (call.fn = "get_phase" /\ call.stage = "returned") =>
    (0 <= call.ret /\ call.ret <= 256)

(***************************************************************************)
(* The least valuable attackers of a square (src/eval.c lines 221-263).    *)
(* A bitboard is the set of its squares.  The side to move has two pieces  *)
(* of each of the six kinds, those of kind pt on the squares 2 * pt and    *)
(* 2 * pt + 1, and the other side has one piece, on EnemySquare;           *)
(* get_attackers gives the pieces of both sides that attack sq.            *)
(***************************************************************************)
PIECE_TYPE_PAWN == 0
PIECE_TYPE_KING == 5
AttackerTypes == PIECE_TYPE_PAWN..PIECE_TYPE_KING
EnemySquare == 2 * (PIECE_TYPE_KING + 1)
point_value == <<100, 325, 350, 500, 1000, 10000>>   \* index pt + 1

create_piece(pt, c) == 2 * pt + c

get_attacker_value(piece) ==
  point_value[((Len(point_value) - 1) - get_piece_type(piece)) + 1]

get_captured_piece_value(piece) == point_value[get_piece_type(piece) + 1]

own_piece_bitboard(piece) ==
  {2 * get_piece_type(piece), 2 * get_piece_type(piece) + 1}

\* the loop of get_least_valuable_attackers from piece type pt on;
\* acc = <<ret, least_piece>>
RECURSIVE least_loop(_, _, _, _)
least_loop(pt, side, attackers, acc) ==
  IF pt > PIECE_TYPE_KING THEN acc[1]
  ELSE LET piece == create_piece(pt, side)
           bb == own_piece_bitboard(piece)
           take == /\ bb \cap attackers # {}
                   /\ \/ acc[1] = {}
                      \/ get_attacker_value(piece)
                           > get_captured_piece_value(acc[2])
       IN  least_loop(pt + 1, side, attackers,
                      IF take THEN <<bb \cap attackers, piece>> ELSE acc)

get_least_valuable_attackers(side, attackers) ==
  least_loop(PIECE_TYPE_PAWN, side, attackers, <<{}, PIECE_NONE>>)

AttackGiven(side, attackers) ==
  [fn |-> "get_least_valuable_attackers", stage |-> "given", side |-> side,
   attackers |-> attackers, ret |-> {}]

AttackInit ==
  /\ SearchIdle
  /\ ComponentsIdle
  /\ call \in {AttackGiven(x[1], x[2]) :
                 x \in {0, 1} \X SUBSET (0..EnemySquare)}

GetLeastValuableAttackers ==
  /\ call.fn = "get_least_valuable_attackers"
  /\ call.stage = "given"
  /\ call' = [call EXCEPT
       !.stage = "returned",
       !.ret = get_least_valuable_attackers(call.side, call.attackers)]
  /\ UNCHANGED <<tt, tt_log, position, pos_log, uci, search_vars>>

AttackSpec == AttackInit /\ [][GetLeastValuableAttackers]_vars

\* the attackers of the side to move, and the point value of the piece on
\* one of its squares
OwnAttackers == call.attackers \ {EnemySquare}
ValueOn(sq) == point_value[(sq \div 2) + 1]

(***************************************************************************)
(* C24: get_least_valuable_attackers(sq, pos) returns exactly those pieces *)
(* of the side to move that attack sq and whose piece type has the lowest  *)
(* point value among all of that side's attackers of sq (the pawns when a  *)
(* pawn, a knight and a bishop all attack sq), and 0 when the side to move *)
(* has no attacker of sq.  The code violates it.                           *)
(***************************************************************************)
C24_LeastValuableReturned ==
  (call.fn = "get_least_valuable_attackers" /\ call.stage = "returned") =>
    call.ret = {s \in OwnAttackers :
                  \A t \in OwnAttackers : ValueOn(s) <= ValueOn(t)}

\* a node of the search stores its entry in the table
NodeStored ==
  /\ pc = "call"
  /\ stack # << >>
  /\ Top.pc = "store"
  /\ running
  /\ stack' # stack

(***************************************************************************)
(* C26: every transposition-table entry stored by negamax or qsearch       *)
(* carries as best_move either 0 or a move that is legal in the position   *)
(* the entry was stored for, never a pseudo-legal move that leaves the own *)
(* king in check and never a move that was skipped.  The code violates it. *)
(***************************************************************************)
C26_StoredMoveLegal ==
  [][NodeStored =>
       LET e == get_tt_entry(tt', Top.pos).data
       IN  e.best_move = 0 \/ move_is_legal(Top.pos, e.best_move)]_vars

(***************************************************************************)
(* C27: on every path by which run_search returns (normal completion,      *)
(* perft, root already checkmated, root without pseudo-legal moves) the    *)
(* shared running flag is false when it returns, so a caller that set it   *)
(* to true before the call can tell from the flag that the worker has      *)
(* finished.  The code violates it.                                        *)
(***************************************************************************)
C27_ReturnedNotRunning == pc = "returned" => ~running

(***************************************************************************)
(* The limits of search_arg (src/src/uci.c: init_search_arg, ucinewgame,   *)
(* go, stop).  An argument of a go command is a pair of a word and what    *)
(* follows it: "ok" a number (GoValue), "bad" no token or no number.  The  *)
(* word infinite takes no value.  call.last tells how the last go command  *)
(* ended and which limits it assigned.                                     *)
(***************************************************************************)
LimitNames == {"depth", "nodes", "mate", "movetime"}

\* init_search_arg, lines 424-444
init_search_arg ==
  [depth |-> INT_MAX, nodes |-> LLONG_MAX, mate |-> 0, movetime |-> 0]

GoItems ==
  {<<"infinite", "none">>}
    \cup ((LimitNames \cup {"other"}) \X {"ok", "bad"})

GoCommands == UNION {[1..n -> GoItems] : n \in 0..MaxGoItems}

\* the loop of go, lines 451-489, from argument i on: the limits, the limits
\* assigned, and whether the command goes on to start the worker
RECURSIVE go_loop(_, _, _, _)
go_loop(items, i, limits, named) ==
  IF i > Len(items)
  THEN [limits |-> limits, named |-> named, start |-> TRUE]
  ELSE LET str == items[i][1]
           value == items[i][2]
       IN  IF str = "infinite"
           THEN go_loop(items, i + 1, [limits EXCEPT !.depth = 100],
                        named \cup {"depth"})
           ELSE IF value = "bad"
           THEN [limits |-> limits, named |-> named, start |-> FALSE]
           ELSE IF str \in LimitNames
           THEN go_loop(items, i + 1, [limits EXCEPT ![str] = GoValue],
                        named \cup {str})
           ELSE [limits |-> limits, named |-> named, start |-> TRUE]

GoStart ==
  [fn |-> "go", limits |-> init_search_arg, search_thread_created |-> FALSE,
   stop_search |-> FALSE, last |-> [outcome |-> "none", named |-> {}]]

\* uci_interpret, lines 193-197
GoIgnored == call.search_thread_created /\ ~call.stop_search

\* go, lines 449-508: the thread of the last search is joined and a new one
\* is created, or pthread_create fails
GoCommand ==
  /\ call.fn = "go"
  /\ ~GoIgnored
  /\ \E items \in GoCommands, created \in BOOLEAN :
       LET r == go_loop(items, 1, call.limits, {})
       IN  call' =
             IF r.start
             THEN [call EXCEPT
                     !.limits = r.limits,
                     !.search_thread_created = created,
                     !.stop_search = ~created,
                     !.last = [outcome |-> IF created THEN "started" ELSE "failed",
                               named |-> r.named]]
             ELSE [call EXCEPT
                     !.limits = r.limits,
                     !.last = [outcome |-> "abandoned", named |-> r.named]]
  /\ UNCHANGED <<tt, tt_log, position, pos_log, uci, search_vars>>

\* stop, lines 510-520
GoStop ==
  /\ call.fn = "go"
  /\ call.search_thread_created
  /\ call' = [call EXCEPT !.search_thread_created = FALSE, !.stop_search = TRUE]
  /\ UNCHANGED <<tt, tt_log, position, pos_log, uci, search_vars>>

\* the search thread holds arg->stop and sets it at the end of its search
GoSearchEnds ==
  /\ call.fn = "go"
  /\ call.search_thread_created
  /\ ~call.stop_search
  /\ call' = [call EXCEPT !.stop_search = TRUE]
  /\ UNCHANGED <<tt, tt_log, position, pos_log, uci, search_vars>>

\* ucinewgame, lines 407-422
GoNewGame ==
  /\ call.fn = "go"
  /\ ~GoIgnored
  /\ call' = [call EXCEPT !.limits = init_search_arg,
                          !.last = [outcome |-> "none", named |-> {}]]
  /\ UNCHANGED <<tt, tt_log, position, pos_log, uci, search_vars>>

GoInit ==
  /\ SearchIdle
  /\ ComponentsIdle
  /\ call = GoStart

GoNext == GoCommand \/ GoStop \/ GoSearchEnds \/ GoNewGame

GoSpec == GoInit /\ [][GoNext]_vars

(***************************************************************************)
(* C28: the limits used by a search started by a go command are only those *)
(* named in that go command: a limit set by an earlier go command of the   *)
(* same game and not named in the current one has its default value when   *)
(* the worker is started, also when the earlier go command was abandoned   *)
(* because of a malformed argument.  The code violates it.                 *)
(***************************************************************************)
C28_OnlyNamedLimits ==
  (call.fn = "go" /\ call.last.outcome = "started") =>
    \A n \in LimitNames \ call.last.named : call.limits[n] = init_search_arg[n]

(***************************************************************************)
(* The position command (src/src/uci.c: position, parse_moves,             *)
(* ucinewgame).  search_arg.pos is 0 before the first position, 1 for      *)
(* startpos and 2 for the position of a FEN.  A move string is "a" or "b", *)
(* which lan_to_move turns into the moves 1 and 2, "x", which it rejects,  *)
(* or "long", longer than MAX_LAN_LEN.  lan_to_move is not part of the     *)
(* sources: what it returns for a string it rejects is any Move.           *)
(* call.last tells how the last position command ended and the moves it    *)
(* listed.                                                                 *)
(***************************************************************************)
LanMoves == [a |-> 1, b |-> 2]
MoveValues == {0, 1, 2}
PositionWords == {"startpos", "fen", "fen_short", "fen_invalid", "other"}

GoodLists == UNION {[1..n -> {"a", "b"}] : n \in 0..(MovesCapacity + 1)}
MoveLists ==
  GoodLists
    \cup {Append(l, bad) : l \in {g \in GoodLists : Len(g) <= MovesCapacity},
                           bad \in {"x", "long"}}
\* what follows the position: nothing, a word other than moves, or moves and
\* a list
PositionRests ==
  {[word |-> "none", list |-> << >>], [word |-> "other", list |-> << >>]}
    \cup {[word |-> "moves", list |-> l] : l \in MoveLists}

\* parse_moves, lines 382-405, from string num + 1 on; junk is what
\* lan_to_move returns with success false
RECURSIVE parse_moves(_, _, _, _)
parse_moves(moves, strs, num, junk) ==
  IF num = Len(strs)
  THEN [error |-> FALSE, moves |-> moves, len |-> num]
  ELSE LET move == strs[num + 1]
       IN  IF move = "long" \/ num + 1 > MovesCapacity
           THEN [error |-> TRUE, moves |-> moves, len |-> 0]
           ELSE IF move = "x"
           THEN [error |-> TRUE, moves |-> [moves EXCEPT ![num + 1] = junk],
                 len |-> 0]
           ELSE parse_moves([moves EXCEPT ![num + 1] = LanMoves[move]], strs,
                            num + 1, junk)

PositionStart ==
  [fn |-> "position", newgame_sent |-> FALSE, pos |-> 0, moves_nb |-> 0,
   moves |-> [i \in 1..MovesCapacity |-> 0],
   last |-> [outcome |-> "none", listed |-> << >>]]

Rejected(c) == [c EXCEPT !.last = [outcome |-> "rejected", listed |-> << >>]]

\* position, lines 314-380
PositionCommand ==
  /\ call.fn = "position"
  /\ \E token \in PositionWords, rest \in PositionRests, junk \in MoveValues :
       LET c == [call EXCEPT
                   !.newgame_sent = TRUE,
                   !.moves_nb = IF call.newgame_sent THEN @ ELSE 0]
           pos == IF token = "startpos" THEN 1 ELSE 2
           r == parse_moves(c.moves, rest.list, 0, junk)
       IN  call' =
             IF token \notin {"startpos", "fen"} THEN Rejected(c)
             ELSE IF rest.word = "none"
             THEN [c EXCEPT !.pos = pos,
                            !.last = [outcome |-> "accepted", listed |-> << >>]]
             ELSE IF rest.word # "moves" THEN Rejected(c)
             ELSE IF r.error THEN Rejected([c EXCEPT !.moves = r.moves])
             ELSE [c EXCEPT
                     !.moves = r.moves,
                     !.pos = pos,
                     !.moves_nb = r.len,
                     !.last = [outcome |-> "accepted",
                               listed |-> [i \in 1..Len(rest.list) |->
                                             LanMoves[rest.list[i]]]]]
  /\ UNCHANGED <<tt, tt_log, position, pos_log, uci, search_vars>>

\* ucinewgame, lines 407-422, as a command of its own
PositionNewGame ==
  /\ call.fn = "position"
  /\ call' = [call EXCEPT !.newgame_sent = TRUE, !.moves_nb = 0,
                          !.last = [outcome |-> "none", listed |-> << >>]]
  /\ UNCHANGED <<tt, tt_log, position, pos_log, uci, search_vars>>

PositionInit ==
  /\ SearchIdle
  /\ ComponentsIdle
  /\ call = PositionStart

PositionNext == PositionCommand \/ PositionNewGame

PositionSpec == PositionInit /\ [][PositionNext]_vars

\* the input of the search: the position, the number of moves and the moves
SearchInput(c) == <<c.pos, c.moves_nb, [i \in 1..c.moves_nb |-> c.moves[i]]>>

(***************************************************************************)
(* C29: after every position command that is accepted, search_arg.moves_nb *)
(* equals the number of moves listed in that command (0 when the command   *)
(* has no moves part), and search_arg.moves holds exactly those moves,     *)
(* independent of earlier position commands.  The code violates it.        *)
(***************************************************************************)
C29_MovesOfCommand ==
  (call.fn = "position" /\ call.last.outcome = "accepted") =>
    SearchInput(call)[2] = Len(call.last.listed)
      /\ SearchInput(call)[3] = call.last.listed

(***************************************************************************)
(* C30: a position command that is rejected (missing or invalid FEN, a     *)
(* token other than moves, a move string that is too long or not a valid   *)
(* move, or too many moves) leaves the search input unchanged:             *)
(* search_arg.pos, search_arg.moves_nb and the first moves_nb entries of   *)
(* search_arg.moves are the same as before the command.  The code violates *)
(* it.                                                                     *)
(***************************************************************************)
C30_RejectedLeavesInput ==
  [][(call.fn = "position" /\ call'.last.outcome = "rejected") =>
       SearchInput(call') = SearchInput(call)]_vars

=============================================================================
